---------------------------- MODULE Spec2Model ----------------------------
(***************************************************************************)
(* A model of the data normalisation / aggregation layer of the VizAI      *)
(* dashboard (src/src/api/api.ts, src/src/utils/formatting.ts).            *)
(*                                                                         *)
(* JavaScript values are tagged records ([k |-> "string", s |-> ...]),     *)
(* text is processed character by character, and instants are the         *)
(* milliseconds of Date.getTime() counted from 2025-10-20 00:00 UTC        *)
(* (OriginDays) so that they fit TLC's 32-bit integers.                    *)
(***************************************************************************)
EXTENDS Integers, Sequences, FiniteSets, TLC

(***************************************************************************)
(* JavaScript values                                                       *)
(***************************************************************************)
Undef == [k |-> "undefined"]
Null == [k |-> "null"]
Str(s) == [k |-> "string", s |-> s]
Bool(b) == [k |-> "boolean", b |-> b]

Abs(i) == IF i < 0 THEN -i ELSE i

RECURSIVE GCD(_, _)
GCD(a, b) == IF b = 0 THEN a ELSE GCD(b, a % b)

\* A number is the rational n/d in lowest terms (d > 0); d = 0 is NaN.
NaN == [k |-> "number", n |-> 0, d |-> 0]
Rat(n, d) ==
    IF d = 0 THEN NaN
    ELSE LET g == GCD(Abs(n), Abs(d))
             sg == IF d < 0 THEN -1 ELSE 1
         IN  [k |-> "number", n |-> sg * (n \div g), d |-> Abs(d) \div g]
Num(i) == [k |-> "number", n |-> i, d |-> 1]

IsString(v) == v.k = "string"
IsNumber(v) == v.k = "number"
IsNaN(v) == v.k = "number" /\ v.d = 0
IsArray(v) == v.k = "array"
IsInteger(v) == v.k = "number" /\ v.d = 1

\* ToBoolean: what `!x`, `x || y` and `c ? a : b` test.
Truthy(v) ==
    CASE v.k = "undefined" -> FALSE
      [] v.k = "null" -> FALSE
      [] v.k = "string" -> v.s # ""
      [] v.k = "number" -> v.d # 0 /\ v.n # 0
      [] v.k = "boolean" -> v.b
      [] OTHER -> TRUE

\* a || b || ... : the first truthy operand, else the last operand.
RECURSIVE OrChain(_)
OrChain(vs) ==
    IF Len(vs) = 1 \/ Truthy(Head(vs)) THEN Head(vs) ELSE OrChain(Tail(vs))

\* Arithmetic of numbers (NaN is contagious, comparisons with NaN are false).
NumAdd(a, b) ==
    IF IsNaN(a) \/ IsNaN(b) THEN NaN ELSE Rat(a.n * b.d + b.n * a.d, a.d * b.d)
NumSub(a, b) ==
    IF IsNaN(a) \/ IsNaN(b) THEN NaN ELSE Rat(a.n * b.d - b.n * a.d, a.d * b.d)
NumMul(a, b) ==
    IF IsNaN(a) \/ IsNaN(b) THEN NaN ELSE Rat(a.n * b.n, a.d * b.d)
\* x / 0 is +-Infinity or NaN in JavaScript; every caller guards the divisor.
NumDiv(a, b) ==
    IF IsNaN(a) \/ IsNaN(b) \/ b.n = 0 THEN NaN ELSE Rat(a.n * b.d, a.d * b.n)
NumLt(a, b) == ~IsNaN(a) /\ ~IsNaN(b) /\ a.n * b.d < b.n * a.d
NumGt(a, b) == NumLt(b, a)
MathFloor(a) == IF IsNaN(a) THEN NaN ELSE Num(a.n \div a.d)
\* Math.max / Math.min return NaN when an argument is NaN.
MathMax(a, b) == IF IsNaN(a) \/ IsNaN(b) THEN NaN ELSE IF NumLt(a, b) THEN b ELSE a
MathMin(a, b) == IF IsNaN(a) \/ IsNaN(b) THEN NaN ELSE IF NumLt(b, a) THEN b ELSE a

\* An object with the own properties of p; reading any other key gives undefined.
Get(o, key) == IF key \in DOMAIN o.f THEN o.f[key] ELSE Undef
Obj(p) == [k |-> "object", f |-> p]
Arr(items) == [k |-> "array", items |-> items]

(***************************************************************************)
(* Text                                                                    *)
(***************************************************************************)
CharAt(s, i) == SubSeq(s, i, i)
Includes(s, c) == \E i \in 1..Len(s) : CharAt(s, i) = c
StartsWith(s, p) == Len(s) >= Len(p) /\ SubSeq(s, 1, Len(p)) = p
Slice(s, from) == SubSeq(s, from + 1, Len(s))
\* String.prototype.indexOf for a one-character needle, 0-based, -1 when absent.
IndexOf(s, c) ==
    IF Includes(s, c)
    THEN (CHOOSE i \in 1..Len(s) :
            CharAt(s, i) = c /\ \A j \in 1..(i - 1) : CharAt(s, j) # c) - 1
    ELSE -1

Digits == <<"0", "1", "2", "3", "4", "5", "6", "7", "8", "9">>
IsDigit(c) == \E i \in 1..10 : Digits[i] = c
DigitVal(c) == (CHOOSE i \in 1..10 : Digits[i] = c) - 1
AllDigits(s) == Len(s) > 0 /\ \A i \in 1..Len(s) : IsDigit(CharAt(s, i))

\* parseInt(s, 10) of a string of decimal digits.
RECURSIVE ParseInt(_)
ParseInt(s) ==
    IF Len(s) = 0 THEN 0
    ELSE 10 * ParseInt(SubSeq(s, 1, Len(s) - 1)) + DigitVal(CharAt(s, Len(s)))

\* The decimal text of n >= 0, left-padded with zeros to `width` characters.
RECURSIVE Pad(_, _)
Pad(n, width) ==
    IF width <= 1 /\ n < 10 THEN Digits[n + 1]
    ELSE Pad(n \div 10, width - 1) \o Digits[(n % 10) + 1]

UpperLetters == "ABCDEFGHIJKLMNOPQRSTUVWXYZ"
LowerLetters == "abcdefghijklmnopqrstuvwxyz"
IsUpper(c) == Includes(UpperLetters, c)
IsLower(c) == Includes(LowerLetters, c)
IsLetter(c) == IsUpper(c) \/ IsLower(c)
\* \w of a regular expression: [A-Za-z0-9_]
IsWordChar(c) == IsLetter(c) \/ IsDigit(c) \/ c = "_"
ToUpperChar(c) ==
    IF IsLower(c) THEN CharAt(UpperLetters, IndexOf(LowerLetters, c) + 1) ELSE c
ToLowerChar(c) ==
    IF IsUpper(c) THEN CharAt(LowerLetters, IndexOf(UpperLetters, c) + 1) ELSE c
RECURSIVE ToUpperCase(_)
ToUpperCase(s) ==
    IF Len(s) = 0 THEN "" ELSE ToUpperChar(CharAt(s, 1)) \o ToUpperCase(Slice(s, 1))
RECURSIVE ToLowerCase(_)
ToLowerCase(s) ==
    IF Len(s) = 0 THEN "" ELSE ToLowerChar(CharAt(s, 1)) \o ToLowerCase(Slice(s, 1))

(***************************************************************************)
(* Date: time values, parsing and toISOString                              *)
(***************************************************************************)
\* Days from 1970-01-01 of a proleptic Gregorian date, and back.
DaysFromCivil(y, m, d) ==
    LET yy == IF m <= 2 THEN y - 1 ELSE y
        era == yy \div 400
        yoe == yy - era * 400
        mp == IF m > 2 THEN m - 3 ELSE m + 9
        doy == (153 * mp + 2) \div 5 + d - 1
        doe == yoe * 365 + yoe \div 4 - yoe \div 100 + doy
    IN  era * 146097 + doe - 719468

CivilFromDays(z) ==
    LET zz == z + 719468
        era == zz \div 146097
        doe == zz - era * 146097
        yoe == (doe - doe \div 1460 + doe \div 36524 - doe \div 146096) \div 365
        doy == doe - (365 * yoe + yoe \div 4 - yoe \div 100)
        mp == (5 * doy + 2) \div 153
        d == doy - (153 * mp + 2) \div 5 + 1
        m == IF mp < 10 THEN mp + 3 ELSE mp - 9
        y == yoe + era * 400 + (IF m <= 2 THEN 1 ELSE 0)
    IN  [y |-> y, m |-> m, d |-> d]

\* Time values are counted from this day (00:00 UTC) instead of 1970-01-01.
OriginDays == DaysFromCivil(2025, 10, 20)
MsPerDay == 24 * 60 * 60 * 1000

IsLeap(y) == (y % 4 = 0 /\ y % 100 # 0) \/ y % 400 = 0
DaysInMonth(y, m) ==
    IF m = 2 THEN (IF IsLeap(y) THEN 29 ELSE 28)
    ELSE IF m \in {4, 6, 9, 11} THEN 30 ELSE 31

\* The time value of the UTC wall clock y-m-d h:mi:s.ms, NaN when a field is
\* out of range.
MakeTime(y, m, d, h, mi, s, ms) ==
    IF m \in 1..12 /\ d \in 1..DaysInMonth(y, m) /\ h \in 0..23 /\ mi \in 0..59
       /\ s \in 0..59
    THEN Num((DaysFromCivil(y, m, d) - OriginDays) * MsPerDay
             + ((h * 60 + mi) * 60 + s) * 1000 + ms)
    ELSE NaN

\* s[from+1 .. to] as in String.prototype.slice(from, to).
Sub(s, from, to) == SubSeq(s, from + 1, to)

\* /^\d{4}-\d{2}-\d{2}$/
IsDateOnly(s) ==
    /\ Len(s) = 10
    /\ AllDigits(Sub(s, 0, 4)) /\ CharAt(s, 5) = "-"
    /\ AllDigits(Sub(s, 5, 7)) /\ CharAt(s, 8) = "-"
    /\ AllDigits(Sub(s, 8, 10))
\* /^\d{2}:\d{2}:\d{2}$/
IsClock(s) ==
    /\ Len(s) = 8
    /\ AllDigits(Sub(s, 0, 2)) /\ CharAt(s, 3) = ":"
    /\ AllDigits(Sub(s, 3, 5)) /\ CharAt(s, 6) = ":"
    /\ AllDigits(Sub(s, 6, 8))
\* /^\d{4}-\d{2}-\d{2} \d{2}:\d{2}:\d{2}$/
IsSpaceDateTime(s) ==
    Len(s) = 19 /\ IsDateOnly(Sub(s, 0, 10)) /\ CharAt(s, 11) = " "
    /\ IsClock(Sub(s, 11, 19))
\* /^\d{4}-\d{2}-\d{2} \d{2}:\d{2}:\d{2} \([\w]{3}\)$/
IsSpaceDateTimeDay(s) ==
    /\ Len(s) = 25 /\ IsSpaceDateTime(Sub(s, 0, 19))
    /\ Sub(s, 19, 21) = " (" /\ CharAt(s, 25) = ")"
    /\ \A i \in 22..24 : IsWordChar(CharAt(s, i))

MonthNames ==
    <<"Jan", "Feb", "Mar", "Apr", "May", "Jun", "Jul", "Aug", "Sep", "Oct", "Nov", "Dec">>
IsLetters3(s) == Len(s) = 3 /\ \A i \in 1..3 : IsLetter(CharAt(s, i))
\* /^[A-Za-z]{3}, \d{1,2} [A-Za-z]{3} \d{4} \d{2}:\d{2}:\d{2} GMT$/
\* dd is the length of the day-of-month field (1 or 2).
IsRfc2822With(s, dd) ==
    /\ Len(s) = 27 + dd
    /\ IsLetters3(Sub(s, 0, 3)) /\ Sub(s, 3, 5) = ", "
    /\ AllDigits(Sub(s, 5, 5 + dd)) /\ CharAt(s, 6 + dd) = " "
    /\ IsLetters3(Sub(s, 6 + dd, 9 + dd)) /\ CharAt(s, 10 + dd) = " "
    /\ AllDigits(Sub(s, 10 + dd, 14 + dd)) /\ CharAt(s, 15 + dd) = " "
    /\ IsClock(Sub(s, 15 + dd, 23 + dd))
    /\ Sub(s, 23 + dd, 27 + dd) = " GMT"
IsRfc2822(s) == IsRfc2822With(s, 1) \/ IsRfc2822With(s, 2)

\* The ISO-8601 date-time forms Date.parse is specified for:
\* YYYY-MM-DDTHH:mm:ss with an optional .sss, then an optional Z.
IsIsoLocal(s) ==
    Len(s) = 19 /\ IsDateOnly(Sub(s, 0, 10)) /\ CharAt(s, 11) = "T"
    /\ IsClock(Sub(s, 11, 19))
IsIsoDateTime(s) ==
    LET n == IF Len(s) > 0 /\ CharAt(s, Len(s)) = "Z" THEN Len(s) - 1 ELSE Len(s)
    IN  /\ n \in {19, 23}
        /\ IsIsoLocal(Sub(s, 0, 19))
        /\ n = 23 => CharAt(s, 20) = "." /\ AllDigits(Sub(s, 20, 23))

\* The time value of the wall clock written in s[1..19], plus ms milliseconds,
\* read as UTC.
WallClock(s, ms) ==
    MakeTime(ParseInt(Sub(s, 0, 4)), ParseInt(Sub(s, 5, 7)), ParseInt(Sub(s, 8, 10)),
             ParseInt(Sub(s, 11, 13)), ParseInt(Sub(s, 14, 16)),
             ParseInt(Sub(s, 17, 19)), ms)

\* "Www, D Mon YYYY HH:mm:ss GMT" rewritten as "YYYY-MM-DDTHH:mm:ss"; the month
\* is "00" when its name is not a month.
RfcToIso(s) ==
    LET dd == Len(s) - 27
        mon == Sub(s, 6 + dd, 9 + dd)
        m == IF \E i \in 1..12 : MonthNames[i] = mon
             THEN CHOOSE i \in 1..12 : MonthNames[i] = mon ELSE 0
    IN  Sub(s, 10 + dd, 14 + dd) \o "-" \o Pad(m, 2) \o "-"
        \o Pad(ParseInt(Sub(s, 5, 5 + dd)), 2) \o "T" \o Sub(s, 15 + dd, 23 + dd)

\* Date.parse(s): the time value of `new Date(s)`, NaN for an Invalid Date.
\* A date-time without Z is local time (offsetMin minutes east of UTC); a bare
\* date and an RFC-2822 date are UTC.  Text in none of these forms is an
\* Invalid Date.
DateParse(s, offsetMin) ==
    LET rfc == IsRfc2822(s)
        dateOnly == IsDateOnly(s)
        utc == rfc \/ dateOnly \/ (Len(s) > 0 /\ CharAt(s, Len(s)) = "Z")
        millis == IF ~rfc /\ ~dateOnly /\ Len(s) >= 23
                  THEN ParseInt(Sub(s, 20, 23)) ELSE 0
        iso == IF rfc THEN RfcToIso(s)
               ELSE IF dateOnly THEN s \o "T00:00:00" ELSE s
    IN  IF rfc \/ dateOnly \/ IsIsoDateTime(s)
        THEN NumSub(WallClock(iso, millis), Num(IF utc THEN 0 ELSE offsetMin * 60000))
        ELSE NaN

\* new Date(milliseconds): the time value truncated to an integer.
TimeClip(t) ==
    IF IsNaN(t) THEN NaN
    ELSE IF t.n >= 0 THEN Num(t.n \div t.d) ELSE Num(-((-t.n) \div t.d))

\* Date.prototype.toISOString of a valid time value.
ToISOString(t) ==
    LET day == t.n \div MsPerDay
        rest == t.n % MsPerDay
        c == CivilFromDays(day + OriginDays)
    IN  Pad(c.y, 4) \o "-" \o Pad(c.m, 2) \o "-" \o Pad(c.d, 2) \o "T"
        \o Pad(rest \div 3600000, 2) \o ":" \o Pad((rest \div 60000) % 60, 2) \o ":"
        \o Pad((rest \div 1000) % 60, 2) \o "." \o Pad(rest % 1000, 3) \o "Z"

(***************************************************************************)
(* Behaviour labels (api.ts)                                               *)
(***************************************************************************)
Throw(e) == [k |-> "throw", error |-> e]
IsThrow(v) == v.k = "throw"

BACKEND_TO_FRONTEND_BEHAVIOR_MAP ==
    << <<"PACING", "Pacing">>,
       <<"PACING_START", "Pacing Start">>,
       <<"PACING_STOPPED", "Pacing Stopped">>,
       <<"PACING_END", "Pacing End">>,
       <<"RECUMBENT", "Recumbent">>,
       <<"RECUMBENT_START", "Recumbent Start">>,
       <<"RECUMBENT_END", "Recumbent End">>,
       <<"RECUMBENT_STOPPED", "Recumbent Stopped">>,
       <<"NON-RECUMBENT", "Non Recumbent">>,
       <<"NON_RECUMBENT", "Non Recumbent">>,
       <<"SCRATCHING", "Scratching">>,
       <<"SCRATCHING_START", "Scratching Start">>,
       <<"SCRATCHING_END", "Scratching End">>,
       <<"SCRATCHING_STOPPED", "Scratching Stopped">>,
       <<"SELF_DIRECTED", "Self-directed">>,
       <<"SELF_DIRECTED_START", "Self-directed Start">>,
       <<"SELF_DIRECTED_END", "Self-directed End">>,
       <<"SELF_DIRECTED_STOPPED", "Self-directed Stopped">>,
       <<"SELF-DIRECTED", "Self-directed">>,
       <<"SELF-DIRECTED_START", "Self-directed Start">>,
       <<"SELF-DIRECTED_END", "Self-directed End">>,
       <<"SELF-DIRECTED_STOPPED", "Self-directed Stopped">>,
       <<"Pacing", "Pacing">>,
       <<"Recumbent", "Recumbent">>,
       <<"Non Recumbent", "Non Recumbent">>,
       <<"Scratching", "Scratching">>,
       <<"Self-directed", "Self-directed">> >>

\* The methods every object literal inherits from Object.prototype.
ObjectPrototypeKeys ==
    {"constructor", "toString", "toLocaleString", "valueOf", "hasOwnProperty",
     "isPrototypeOf", "propertyIsEnumerable"}

\* table[key] on an object literal: the mapped value, the inherited method for
\* a key of Object.prototype, undefined for any other key.
Lookup(table, key) ==
    IF \E i \in 1..Len(table) : table[i][1] = key
    THEN Str(table[CHOOSE i \in 1..Len(table) : table[i][1] = key][2])
    ELSE IF key \in ObjectPrototypeKeys THEN [k |-> "function", name |-> key]
    ELSE Undef

\* String.prototype.trim (blanks only).
RECURSIVE Trim(_)
Trim(s) ==
    IF Len(s) = 0 THEN s
    ELSE IF CharAt(s, 1) = " " THEN Trim(Slice(s, 1))
    ELSE IF CharAt(s, Len(s)) = " " THEN Trim(SubSeq(s, 1, Len(s) - 1))
    ELSE s

\* s.split(/[-_]/): the pieces between the separators, empty pieces included.
RECURSIVE SplitTokens(_, _)
SplitTokens(s, cur) ==
    IF Len(s) = 0 THEN <<cur>>
    ELSE IF CharAt(s, 1) \in {"-", "_"} THEN <<cur>> \o SplitTokens(Slice(s, 1), "")
    ELSE SplitTokens(Slice(s, 1), cur \o CharAt(s, 1))

RECURSIVE Join(_, _)
Join(words, sep) ==
    IF Len(words) = 0 THEN ""
    ELSE IF Len(words) = 1 THEN words[1]
    ELSE words[1] \o sep \o Join(Tail(words), sep)

Capitalize(word) == ToUpperChar(CharAt(word, 1)) \o ToLowerCase(Slice(word, 1))

titleCaseBehavior(backendType) ==
    IF backendType = "" THEN "Unknown"
    ELSE LET pieces == SplitTokens(Trim(backendType), "")
             words == SelectSeq(pieces, LAMBDA w : w # "")
         IN  Join([i \in 1..Len(words) |-> Capitalize(words[i])], " ")

\* The result is a string value, or a TypeError when a truthy non-string code
\* reaches toUpperCase().
getFrontendBehaviorType(backendType) ==
    IF ~Truthy(backendType) THEN Str("Unknown")
    ELSE IF ~IsString(backendType) THEN Throw("TypeError")
    ELSE IF Truthy(Lookup(BACKEND_TO_FRONTEND_BEHAVIOR_MAP, backendType.s))
    THEN Lookup(BACKEND_TO_FRONTEND_BEHAVIOR_MAP, backendType.s)
    ELSE LET upper == ToUpperCase(backendType.s)
             titleCased == titleCaseBehavior(backendType.s)
         IN  IF Truthy(Lookup(BACKEND_TO_FRONTEND_BEHAVIOR_MAP, upper))
             THEN Lookup(BACKEND_TO_FRONTEND_BEHAVIOR_MAP, upper)
             ELSE IF titleCased = "Self Directed" THEN Str("Self-directed")
             ELSE IF StartsWith(titleCased, "Self Directed ")
             THEN Str("Self-directed " \o Slice(titleCased, Len("Self Directed ")))
             ELSE OrChain(<<Str(titleCased), Str("Unknown")>>)

(***************************************************************************)
(* URL rewriting (formatting.ts)                                           *)
(***************************************************************************)
\* convertS3UrlToHttp splitting bucket and key at the last '/'.
convertS3UrlToHttp_LastSlash(s3Url) ==
    IF s3Url = "" THEN ""
    ELSE IF StartsWith(s3Url, "http://") \/ StartsWith(s3Url, "https://") THEN s3Url
    ELSE IF StartsWith(s3Url, "s3://")
    THEN LET withoutProtocol == Slice(s3Url, 5)
             slashes == {i \in 1..Len(withoutProtocol) : CharAt(withoutProtocol, i) = "/"}
             slashIndex == IF slashes = {} THEN -1
                           ELSE (CHOOSE i \in slashes : \A j \in slashes : j <= i) - 1
         IN  IF slashIndex = -1
             THEN "https://" \o withoutProtocol \o ".s3.amazonaws.com"
             ELSE "https://" \o Sub(withoutProtocol, 0, slashIndex)
                  \o ".s3.amazonaws.com/" \o Slice(withoutProtocol, slashIndex + 1)
    ELSE s3Url

\* convertS3UrlToHttp keeping the s3 scheme in its result.
convertS3UrlToHttp_KeepsScheme(s3Url) ==
    IF s3Url = "" THEN ""
    ELSE IF StartsWith(s3Url, "http://") \/ StartsWith(s3Url, "https://") THEN s3Url
    ELSE IF StartsWith(s3Url, "s3://")
    THEN LET withoutProtocol == Slice(s3Url, 5)
             slashIndex == IndexOf(withoutProtocol, "/")
         IN  IF slashIndex = -1
             THEN "s3://" \o withoutProtocol \o ".s3.amazonaws.com"
             ELSE "s3://" \o Sub(withoutProtocol, 0, slashIndex)
                  \o ".s3.amazonaws.com/" \o Slice(withoutProtocol, slashIndex + 1)
    ELSE s3Url

convertS3UrlToHttp(s3Url) ==
    IF s3Url = "" THEN ""
    ELSE IF StartsWith(s3Url, "http://") \/ StartsWith(s3Url, "https://") THEN s3Url
    ELSE IF StartsWith(s3Url, "s3://")
    THEN LET withoutProtocol == Slice(s3Url, 5)
             slashIndex == IndexOf(withoutProtocol, "/")
         IN  IF slashIndex = -1
             THEN "https://" \o withoutProtocol \o ".s3.amazonaws.com"
             ELSE "https://" \o Sub(withoutProtocol, 0, slashIndex)
                  \o ".s3.amazonaws.com/" \o Slice(withoutProtocol, slashIndex + 1)
    ELSE s3Url

isS3Url(url) == StartsWith(url, "s3://")

(***************************************************************************)
(* transformBehaviorEvent (api.ts)                                         *)
(***************************************************************************)
\* event.key: undefined on anything that is not an object holding the key.
Prop(event, key) == IF event.k = "object" THEN Get(event, key) ELSE Undef
Props(event, keys) == [i \in 1..Len(keys) |-> Prop(event, keys[i])]

\* ToNumber, for the arithmetic and comparisons applied to field values.
ToNumber(v) ==
    CASE v.k = "number" -> v
      [] v.k = "string" ->
            IF Trim(v.s) = "" THEN Num(0)
            ELSE IF AllDigits(Trim(v.s)) THEN Num(ParseInt(Trim(v.s))) ELSE NaN
      [] v.k = "null" -> Num(0)
      [] v.k = "boolean" -> IF v.b THEN Num(1) ELSE Num(0)
      [] OTHER -> NaN

\* The first " " of s replaced by "T" (dateStr.replace(' ', 'T')).
ReplaceFirstSpace(s) ==
    LET i == IndexOf(s, " ")
    IN  IF i = -1 THEN s ELSE Sub(s, 0, i) \o "T" \o Slice(s, i + 1)

\* new Date(s).toISOString(): a RangeError for an Invalid Date.
ParseToISO(s, offsetMin) ==
    LET t == DateParse(s, offsetMin)
    IN  IF IsNaN(t) THEN Throw("RangeError") ELSE Str(ToISOString(t))

\* The text formatTimestamp hands to `new Date(...)`, by the form of dateStr.
DateArgument(s) ==
    IF IsSpaceDateTime(s) THEN ReplaceFirstSpace(s)
    ELSE IF IsSpaceDateTimeDay(s) THEN ReplaceFirstSpace(Sub(s, 0, Len(s) - 6))
    ELSE IF IsRfc2822(s) THEN s
    ELSE IF IsDateOnly(s) THEN s \o "T00:00:00"
    ELSE s

\* now is the time value of `new Date()` at the call.
formatTimestamp(dateStr, now, offsetMin) ==
    IF ~Truthy(dateStr) THEN Str(ToISOString(now))
    ELSE IF ~IsString(dateStr) THEN Throw("TypeError")
    ELSE IF Includes(dateStr.s, "T") \/ Includes(dateStr.s, "Z") THEN dateStr
    ELSE ParseToISO(DateArgument(dateStr.s), offsetMin)

\* /^(\d{1,2}):(\d{2}):(\d{2})$/
MatchesDuration(s) ==
    \/ IsClock(s)
    \/ Len(s) = 7 /\ IsClock("0" \o s)
parseDurationString(durationStr) ==
    IF ~Truthy(durationStr) \/ ~IsString(durationStr) THEN Num(0)
    ELSE IF MatchesDuration(durationStr.s)
    THEN LET s == IF Len(durationStr.s) = 7 THEN "0" \o durationStr.s ELSE durationStr.s
             hours == ParseInt(Sub(s, 0, 2))
             minutes == ParseInt(Sub(s, 3, 5))
             seconds == ParseInt(Sub(s, 6, 8))
         IN  Num(hours * 3600 + minutes * 60 + seconds)
    ELSE Num(0)

\* BehaviourKeys with the key `Behavior` read as well.
BehaviourKeys_WithBehavior ==
    <<"Behaviour", "behaviour", "behavior_type", "behaviour_type", "behavior", "Behavior">>

BehaviourKeys == <<"Behaviour", "behaviour", "behavior_type", "behaviour_type", "behavior">>
StartKeys ==
    <<"start_datetime", "timestamp_from_camera", "detection_timestamp", "StartTime",
      "start_timestamp", "start_time", "timestamp", "start_date">>
EndKeys == <<"end_datetime", "EndTime", "end_timestamp", "end_time", "end_date">>
VideoKeys == <<"video_url", "VideoUrl", "video", "video_path">>

\* A resolution that prefers the numeric duration_seconds to the string.
RecordDuration_NumericFirst(event) ==
    IF Truthy(Prop(event, "duration_seconds")) THEN Prop(event, "duration_seconds")
    ELSE IF Truthy(Prop(event, "duration")) /\ IsString(Prop(event, "duration"))
    THEN parseDurationString(Prop(event, "duration"))
    ELSE OrChain(Props(event, <<"frame_time_seconds", "duration", "duration_sec">>)
                 \o <<Num(0)>>)

\* The duration read from the record, before the start/end delta is considered.
RecordDuration(event) ==
    IF Truthy(Prop(event, "duration")) /\ IsString(Prop(event, "duration"))
    THEN parseDurationString(Prop(event, "duration"))
    ELSE OrChain(Props(event, <<"duration_seconds", "frame_time_seconds", "duration",
                               "duration_sec">>) \o <<Num(0)>>)

\* new Date(ts).getTime(): the start/end strings are parsed again here.
GetTime(ts, offsetMin) ==
    IF IsString(ts) THEN DateParse(ts.s, offsetMin)
    ELSE IF ts = Null THEN Num(0) ELSE NaN

\* new Date(endTime).toISOString() with the duration kept.
EndFromDuration(endTime, durationSeconds) ==
    IF IsNaN(endTime) THEN Throw("RangeError")
    ELSE [k |-> "ok", end |-> Str(ToISOString(endTime)), duration |-> durationSeconds]

\* A resolution that never derives the end from the duration.
DurationAndEnd_NeverSynthesizesEnd(durationSeconds, startTimestamp, endTimestamp, startMs, endMs) ==
    IF Truthy(endTimestamp)
    THEN [k |-> "ok", end |-> endTimestamp,
          duration |->
             IF durationSeconds = Num(0)
             THEN MathMax(Num(0), MathFloor(NumDiv(NumSub(endMs, startMs), Num(1000))))
             ELSE durationSeconds]
    ELSE [k |-> "ok", end |-> startTimestamp, duration |-> Num(0)]

\* The three branches that settle duration_seconds and end_timestamp;
\* startMs and endMs are getTime() of the two timestamps.
DurationAndEnd(durationSeconds, startTimestamp, endTimestamp, startMs, endMs) ==
    IF Truthy(endTimestamp)
    THEN [k |-> "ok", end |-> endTimestamp,
          duration |->
             IF durationSeconds = Num(0)
             THEN MathMax(Num(0), MathFloor(NumDiv(NumSub(endMs, startMs), Num(1000))))
             ELSE durationSeconds]
    ELSE IF NumGt(ToNumber(durationSeconds), Num(0)) /\ Truthy(startTimestamp)
    THEN EndFromDuration(
             TimeClip(NumAdd(startMs, NumMul(ToNumber(durationSeconds), Num(1000)))),
             durationSeconds)
    ELSE [k |-> "ok", end |-> startTimestamp, duration |-> Num(0)]

\* duration_seconds and end_timestamp, or the exception toISOString raises.
ResolveDuration(event, startTimestamp, endTimestamp, offsetMin) ==
    DurationAndEnd(RecordDuration(event), startTimestamp, endTimestamp,
                   GetTime(startTimestamp, offsetMin), GetTime(endTimestamp, offsetMin))

ConfidenceScore(event) ==
    IF IsNumber(Prop(event, "confidence_score"))
    THEN NumDiv(Prop(event, "confidence_score"), Num(100))
    ELSE IF IsNumber(Prop(event, "confidence"))
    THEN NumDiv(Prop(event, "confidence"), Num(100))
    ELSE OrChain(<<NumDiv(ToNumber(OrChain(<<Prop(event, "Confidence"), Num(0)>>)),
                          Num(100)), Num(0)>>)

VideoUrl(event) ==
    LET raw == OrChain(Props(event, VideoKeys) \o <<Str("")>>)
    IN  IF ~IsString(raw) THEN Throw("TypeError")
        ELSE IF isS3Url(raw.s) THEN Str(convertS3UrlToHttp(raw.s)) ELSE raw

\* `event-${Date.now()}-${Math.random()}`; random is the text of Math.random().
SyntheticId(now, random) == "event-" \o Pad(now.n, 1) \o "-" \o random

\* The returned object literal, once every field value is known.
EventObject(event, behaviorType, transformedType, startTimestamp, resolved, video, now, random) ==
    IF IsThrow(resolved) THEN resolved
    ELSE IF IsThrow(video) THEN video
    ELSE [k |-> "event",
          id |-> OrChain(Props(event, <<"id", "event_id", "behavior_id">>)
                         \o <<Str(SyntheticId(now, random))>>),
          behavior_type |-> transformedType,
          raw_behavior_type |-> IF IsString(behaviorType) THEN behaviorType ELSE Undef,
          start_timestamp |-> startTimestamp,
          end_timestamp |-> resolved.end,
          duration_seconds |-> resolved.duration,
          camera_source |->
              OrChain(Props(event, <<"camera_source", "CameraSource", "camera",
                                     "camera_name">>) \o <<Str("Unknown")>>),
          raw_video_url |-> OrChain(Props(event, VideoKeys) \o <<Str("")>>),
          video_url |-> video,
          thumbnail_url |->
              OrChain(Props(event, <<"thumbnail_url", "ThumbnailUrl", "thumbnail",
                                     "thumbnail_path", "image_url">>) \o <<Str("")>>),
          confidence_score |-> ConfidenceScore(event),
          environmental_context |->
              OrChain(Props(event, <<"environmental_context", "context",
                                     "environment">>))]

\* The body of transformBehaviorEvent after its locals behaviorType,
\* transformedType, startTimestamp and endTimestamp have been computed.
TransformWith(event, behaviorType, transformedType, startTimestamp, endTimestamp, now, random, offsetMin) ==
    IF IsThrow(transformedType) THEN transformedType
    ELSE IF IsThrow(startTimestamp) THEN startTimestamp
    ELSE IF IsThrow(endTimestamp) THEN endTimestamp
    ELSE EventObject(event, behaviorType, transformedType, startTimestamp,
                     ResolveDuration(event, startTimestamp, endTimestamp, offsetMin),
                     VideoUrl(event), now, random)

\* startTimestamp (i = 1) and endTimestamp (i = 2) of the record.
Timestamps(startTime, endTime, now, offsetMin) ==
    [i \in 1..2 |->
        IF i = 2 /\ ~Truthy(endTime) THEN Null
        ELSE formatTimestamp(IF i = 1 THEN startTime ELSE endTime, now, offsetMin)]

TransformTimed(event, behaviorType, timestamps, now, random, offsetMin) ==
    TransformWith(event, behaviorType, getFrontendBehaviorType(behaviorType),
                  timestamps[1], timestamps[2], now, random, offsetMin)

\* The Event built from one raw record, or the exception the call raises.
transformBehaviorEvent(event, now, random, offsetMin) ==
    IF ~Truthy(event) THEN Throw("Error: Invalid event data")
    ELSE TransformTimed(event,
                        OrChain(Props(event, BehaviourKeys) \o <<Str("RECUMBENT")>>),
                        Timestamps(OrChain(Props(event, StartKeys)),
                                   OrChain(Props(event, EndKeys)), now, offsetMin),
                        now, random, offsetMin)

(***************************************************************************)
(* fetchBehaviorEvents (api.ts): unwrapping, ids, transformation, filter   *)
(***************************************************************************)
WrapperKeys == <<"timeline", "behaviours", "behaviors", "data", "events">>

\* The else-if chain over the wrapper keys from position i on: the first key
\* that is not undefined decides; its value is taken only when it is an array.
RECURSIVE WrapperChain(_, _)
WrapperChain(response, i) ==
    IF i > Len(WrapperKeys) THEN <<>>
    ELSE IF Prop(response, WrapperKeys[i]) # Undef
    THEN (IF IsArray(Prop(response, WrapperKeys[i]))
          THEN Prop(response, WrapperKeys[i]).items ELSE <<>>)
    ELSE WrapperChain(response, i + 1)

\* UnwrapResponse without the early return of an error response.
UnwrapResponse_NoErrorCheck(response) ==
    IF IsArray(response) THEN [k |-> "events", items |-> response.items]
    ELSE IF response.k = "object"
    THEN [k |-> "events", items |-> WrapperChain(response, 1)]
    ELSE [k |-> "events", items |-> <<>>]

\* The raw record list taken from a response; [k |-> "return"] is the early
\* `return []` of an error response.
UnwrapResponse(response) ==
    IF IsArray(response) THEN [k |-> "events", items |-> response.items]
    ELSE IF response.k = "object"
    THEN IF Truthy(Prop(response, "error")) THEN [k |-> "return", items |-> <<>>]
         ELSE [k |-> "events", items |-> WrapperChain(response, 1)]
    ELSE [k |-> "events", items |-> <<>>]

\* String(v) of the id values upstream sends (strings and integers).
ToStringValue(v) ==
    CASE v.k = "string" -> v.s
      [] v.k = "number" /\ v.d = 1 ->
            IF v.n < 0 THEN "-" \o Pad(-v.n, 1) ELSE Pad(v.n, 1)
      [] v.k = "boolean" -> IF v.b THEN "true" ELSE "false"
      [] OTHER -> "[object Object]"

\* { ...event, id: ... } for the record at 0-based position index; reading
\* event.id of null or undefined is a TypeError.
ExpandEvent(event, index, now) ==
    IF event.k \in {"null", "undefined"} THEN Throw("TypeError")
    ELSE LET id == IF Truthy(Prop(event, "id")) THEN ToStringValue(Prop(event, "id"))
                   ELSE IF Truthy(Prop(event, "ID")) THEN ToStringValue(Prop(event, "ID"))
                   ELSE "event-" \o Pad(index, 1) \o "-" \o Pad(now.n, 1)
             own == IF event.k = "object" THEN DOMAIN event.f ELSE {}
         IN  Obj([key \in own \cup {"id"} |->
                     IF key = "id" THEN Str(id) ELSE event.f[key]])

\* The first exception in rs, if any (forEach / map stop at the first throw).
FirstThrow(rs) ==
    IF \E i \in 1..Len(rs) : IsThrow(rs[i])
    THEN rs[CHOOSE i \in 1..Len(rs) : IsThrow(rs[i]) /\ \A j \in 1..(i - 1) : ~IsThrow(rs[j])]
    ELSE Null

\* The tail of fetchBehaviorEvents: the optional filter on behaviorType.
FilterEvents(transformedEvents, behaviorType) ==
    IF FirstThrow(transformedEvents) # Null THEN FirstThrow(transformedEvents)
    ELSE IF Truthy(behaviorType)
    THEN [k |-> "ok",
          events |-> SelectSeq(transformedEvents,
                               LAMBDA e : e.behavior_type = behaviorType)]
    ELSE [k |-> "ok", events |-> transformedEvents]

\* events.map(transformBehaviorEvent) on the records with their ids expanded.
TransformEvents(expandedEvents, behaviorType, now, random, offsetMin) ==
    IF FirstThrow(expandedEvents) # Null THEN FirstThrow(expandedEvents)
    ELSE FilterEvents([i \in 1..Len(expandedEvents) |->
                          transformBehaviorEvent(expandedEvents[i], now, random,
                                                 offsetMin)],
                      behaviorType)

ExpandEvents(unwrapped, behaviorType, now, random, offsetMin) ==
    IF unwrapped.k = "return" THEN [k |-> "ok", events |-> <<>>]
    ELSE TransformEvents([i \in 1..Len(unwrapped.items) |->
                             ExpandEvent(unwrapped.items[i], i - 1, now)],
                         behaviorType, now, random, offsetMin)

\* The value the promise of fetchBehaviorEvents settles with once the API call
\* has answered with `response`: [k |-> "ok", events |-> ...] or an exception.
fetchBehaviorEvents(response, behaviorType, now, random, offsetMin) ==
    ExpandEvents(UnwrapResponse(response), behaviorType, now, random, offsetMin)

(***************************************************************************)
(* getZooHour (utils/timezone)                                             *)
(***************************************************************************)
\* America/New_York: UTC-4 until daylight saving time ends on 2025-11-02 at
\* 06:00 UTC, UTC-5 afterwards.
DstEnd == (DaysFromCivil(2025, 11, 2) - OriginDays) * MsPerDay + 6 * 3600000
ZooOffsetMin(t) == IF t.n < DstEnd THEN -240 ELSE -300

\* toLocaleString('en-US', {timeZone, hour: 'numeric', hour12: false}) followed by
\* parseInt.  Engines differ on the hour after midnight: "24" (hour cycle h24) or
\* "00"; midnightIs24 says which one this engine prints.  An Invalid Date
\* prints "Invalid Date", which parseInt turns into NaN.
getZooHour(utcTimestamp, offsetMin, midnightIs24) ==
    LET t == IF IsString(utcTimestamp) THEN DateParse(utcTimestamp.s, offsetMin) ELSE NaN
        hour == ((t.n + ZooOffsetMin(t) * 60000) \div 3600000) % 24
    IN  IF IsNaN(t) THEN NaN
        ELSE IF hour = 0 /\ midnightIs24 THEN Num(24) ELSE Num(hour)

(***************************************************************************)
(* generateHeatmapFromEvents (api.ts)                                      *)
(***************************************************************************)
\* Array.prototype.sort() without a comparator orders strings by code unit.
CodeUnitOrder == " -0123456789ABCDEFGHIJKLMNOPQRSTUVWXYZ_abcdefghijklmnopqrstuvwxyz"
RECURSIVE StrLess(_, _)
StrLess(a, b) ==
    IF Len(b) = 0 THEN FALSE
    ELSE IF Len(a) = 0 THEN TRUE
    ELSE IF CharAt(a, 1) = CharAt(b, 1) THEN StrLess(Slice(a, 1), Slice(b, 1))
    ELSE IndexOf(CodeUnitOrder, CharAt(a, 1)) < IndexOf(CodeUnitOrder, CharAt(b, 1))

RECURSIVE SortStrings(_)
SortStrings(S) ==
    IF S = {} THEN <<>>
    ELSE LET least == CHOOSE a \in S : \A b \in S \ {a} : StrLess(a, b)
         IN  <<least>> \o SortStrings(S \ {least})

\* `${hour}` of a number.
NumberText(v) == IF IsNaN(v) THEN "NaN" ELSE ToStringValue(v)

\* a + b: concatenation of the texts when either operand is a string, the sum
\* of the numbers otherwise.
JsAdd(a, b) ==
    IF IsString(a) \/ IsString(b)
    THEN Str((IF IsString(a) THEN a.s ELSE NumberText(a))
             \o (IF IsString(b) THEN b.s ELSE NumberText(b)))
    ELSE NumAdd(ToNumber(a), ToNumber(b))
\* HeatmapKey that leaves the label out of the key.
HeatmapKey_HourOnly(behavior, hour) == NumberText(hour)

HeatmapKey(behavior, hour) == behavior \o "-" \o NumberText(hour)

\* HeatmapAdded that counts the event and leaves its duration out.
HeatmapAdded_CountOnly(existing, event) ==
    [count |-> NumAdd(existing.count, Num(1)), duration |-> existing.duration]

\* existing.count++ and existing.duration += event.duration_seconds.
HeatmapAdded(existing, event) ==
    [count |-> NumAdd(existing.count, Num(1)),
     duration |-> JsAdd(existing.duration, event.duration_seconds)]

\* heatmapMap m after one event with the given key.
HeatmapSet(m, key, event) ==
    [k \in DOMAIN m \cup {key} |->
        IF k = key
        THEN HeatmapAdded(IF key \in DOMAIN m THEN m[key]
                          ELSE [count |-> Num(0), duration |-> Num(0)], event)
        ELSE m[k]]

\* heatmapMap after the events from position i on have been added to m.
RECURSIVE HeatmapMap(_, _, _, _, _)
HeatmapMap(events, i, m, offsetMin, midnightIs24) ==
    IF i > Len(events) THEN m
    ELSE HeatmapMap(events, i + 1,
                    HeatmapSet(m,
                               HeatmapKey(events[i].behavior_type.s,
                                          getZooHour(events[i].start_timestamp,
                                                     offsetMin, midnightIs24)),
                               events[i]),
                    offsetMin, midnightIs24)

DefaultHeatmapBehaviors == <<"Pacing", "Recumbent", "Self-directed", "Non Recumbent">>

\* HeatmapBehaviors without the fallback to the default labels.
HeatmapBehaviors_NoFallback(uniqueBehaviors) == SortStrings(uniqueBehaviors)

\* The sorted distinct labels, or the four default labels when there are none.
HeatmapBehaviors(uniqueBehaviors) ==
    IF Cardinality(uniqueBehaviors) > 0 THEN SortStrings(uniqueBehaviors)
    ELSE DefaultHeatmapBehaviors

\* The cell pushed for (behavior, hour); data is heatmapMap.get(key).
HeatmapCell(data, behavior, hour) ==
    [behavior_type |-> Str(behavior),
     hour |-> Num(hour),
     count |-> IF data = Undef THEN Num(0) ELSE OrChain(<<data.count, Num(0)>>),
     duration_seconds |->
         IF data = Undef THEN Num(0) ELSE OrChain(<<data.duration, Num(0)>>)]

HeatmapGet(heatmapMap, key) == IF key \in DOMAIN heatmapMap THEN heatmapMap[key] ELSE Undef

\* HeatmapCells with cells only for the (behavior, hour) pairs that have data.
HeatmapCells_OnlyWithData(heatmapMap, behaviors) ==
    SelectSeq([c \in 1..(24 * Len(behaviors)) |->
                  HeatmapCell(HeatmapGet(heatmapMap,
                                         HeatmapKey(behaviors[((c - 1) \div 24) + 1],
                                                    Num((c - 1) % 24))),
                              behaviors[((c - 1) \div 24) + 1], (c - 1) % 24)],
              LAMBDA cell : cell.count # Num(0))

\* The nested loops: every behavior, hours 0..23 in order.
HeatmapCells(heatmapMap, behaviors) ==
    [c \in 1..(24 * Len(behaviors)) |->
        HeatmapCell(HeatmapGet(heatmapMap,
                               HeatmapKey(behaviors[((c - 1) \div 24) + 1],
                                          Num((c - 1) % 24))),
                    behaviors[((c - 1) \div 24) + 1], (c - 1) % 24)]

generateHeatmapFromEvents(events, offsetMin, midnightIs24) ==
    HeatmapCells(HeatmapMap(events, 1, <<>>, offsetMin, midnightIs24),
                 HeatmapBehaviors({events[i].behavior_type.s : i \in 1..Len(events)}))

(***************************************************************************)
(* generateSummaryFromEvents (api.ts)                                      *)
(***************************************************************************)
\* Array.from(new Set(xs)): the distinct elements in first-seen order.
RECURSIVE FirstSeen(_, _)
FirstSeen(xs, seen) ==
    IF Len(xs) = 0 THEN seen
    ELSE IF \E i \in 1..Len(seen) : seen[i] = Head(xs) THEN FirstSeen(Tail(xs), seen)
    ELSE FirstSeen(Tail(xs), Append(seen, Head(xs)))

EmptySummary(behaviorType) ==
    [behavior_type |-> behaviorType,
     count |-> Num(0),
     total_duration_seconds |-> Num(0),
     average_duration_seconds |-> Num(0),
     min_duration_seconds |-> Num(0),
     max_duration_seconds |-> Num(0),
     percentage_of_total |-> Num(0)]

\* AddEvent with min/max tracked over every duration, zero included.
AddEvent_MinMaxOverAll(existing, event) ==
    LET d == event.duration_seconds
    IN  [existing EXCEPT
            !.count = NumAdd(@, Num(1)),
            !.total_duration_seconds = NumAdd(@, d),
            !.min_duration_seconds = IF existing.count = Num(0) THEN d ELSE MathMin(@, d),
            !.max_duration_seconds = MathMax(@, d)]

\* The entry of one label after one event of that label.
AddEvent(existing, event) ==
    LET d == event.duration_seconds
        positive == NumGt(ToNumber(d), Num(0))
    IN  [existing EXCEPT
            !.count = NumAdd(@, Num(1)),
            !.total_duration_seconds = JsAdd(@, d),
            !.min_duration_seconds =
                IF positive
                THEN (IF @ = Num(0) THEN d ELSE MathMin(ToNumber(@), ToNumber(d)))
                ELSE @,
            !.max_duration_seconds =
                IF positive THEN MathMax(ToNumber(@), ToNumber(d)) ELSE @]

\* behaviorMap (its values in insertion order) after the events from i on.
RECURSIVE Accumulate(_, _, _)
Accumulate(events, i, behaviorMap) ==
    IF i > Len(events) THEN behaviorMap
    ELSE Accumulate(events, i + 1,
            [j \in 1..Len(behaviorMap) |->
                IF behaviorMap[j].behavior_type = events[i].behavior_type
                THEN AddEvent(behaviorMap[j], events[i]) ELSE behaviorMap[j]])

RECURSIVE SumOf(_, _)
SumOf(xs, field) ==
    IF Len(xs) = 0 THEN Num(0) ELSE JsAdd(SumOf(SubSeq(xs, 1, Len(xs) - 1), field),
                                          xs[Len(xs)][field])

\* behaviors.reduce((max, b) => b.count > max.count ? b : max, behaviors[0])
RECURSIVE MostFrequent(_, _, _)
MostFrequent(behaviors, i, max) ==
    IF i > Len(behaviors) THEN max
    ELSE MostFrequent(behaviors, i + 1,
                      IF NumGt(behaviors[i].count, max.count) THEN behaviors[i] ELSE max)

\* The second pass over behaviorMap: averages and percentages.
WithAverages(counted, totalDuration) ==
    [j \in 1..Len(counted) |->
        [counted[j] EXCEPT
            !.average_duration_seconds =
                IF NumGt(counted[j].count, Num(0))
                THEN NumDiv(ToNumber(counted[j].total_duration_seconds), counted[j].count)
                ELSE Num(0),
            !.percentage_of_total =
                IF NumGt(ToNumber(totalDuration), Num(0))
                THEN NumMul(NumDiv(ToNumber(counted[j].total_duration_seconds),
                                   ToNumber(totalDuration)),
                            Num(100))
                ELSE Num(0)]]

\* SummaryObject with the reduce started from the last aggregate.
SummaryObject_StartsFromLast(behaviors, totalBehaviors, totalDuration, heatmap) ==
    [total_behaviors |-> totalBehaviors,
     most_frequent_behavior |->
         IF Len(behaviors) > 0
         THEN MostFrequent(behaviors, 1, behaviors[Len(behaviors)]).behavior_type
         ELSE Str("No Data"),
     total_monitored_seconds |-> totalDuration,
     behaviors |-> behaviors,
     hourly_heatmap |-> heatmap]

\* The returned summary object.
SummaryObject(behaviors, totalBehaviors, totalDuration, heatmap) ==
    [total_behaviors |-> totalBehaviors,
     most_frequent_behavior |->
         IF Len(behaviors) > 0
         THEN MostFrequent(behaviors, 1, behaviors[1]).behavior_type
         ELSE Str("No Data"),
     total_monitored_seconds |-> totalDuration,
     behaviors |-> behaviors,
     hourly_heatmap |-> heatmap]

\* The summary once behaviorMap holds the counts and totals of every label.
SummaryOf(counted, heatmap) ==
    SummaryObject(WithAverages(counted, SumOf(counted, "total_duration_seconds")),
                  SumOf(counted, "count"),
                  SumOf(counted, "total_duration_seconds"),
                  heatmap)

\* behaviorMap initialised with one zero entry per label, in first-seen order.
InitialBehaviorMap(allBehaviorTypes) ==
    [j \in 1..Len(allBehaviorTypes) |-> EmptySummary(allBehaviorTypes[j])]

generateSummaryFromEvents(events, offsetMin, midnightIs24) ==
    SummaryOf(Accumulate(events, 1,
                  InitialBehaviorMap(
                      FirstSeen([i \in 1..Len(events) |-> events[i].behavior_type],
                                <<>>))),
              generateHeatmapFromEvents(events, offsetMin, midnightIs24))

(***************************************************************************)
(* utils/formatting.ts: the colour of a behaviour label                    *)
(***************************************************************************)
behaviorColors ==
    << <<"Pacing", "#008C8C">>, <<"Recumbent", "#1F2937">>, <<"Scratching", "#A3E635">>,
       <<"Self-directed", "#0891B2">>, <<"Self Directed", "#0891B2">>,
       <<"Non Recumbent", "#059669">>, <<"Non-Recumbent", "#059669">> >>

\* new Set(Object.values(behaviorColors).map((c) => c.toLowerCase()))
StaticUsedColors == {ToLowerCase(behaviorColors[i][2]) : i \in 1..Len(behaviorColors)}

\* String.prototype.charCodeAt for the characters labels are made of.
CharCodeAt(c) ==
    IF IsUpper(c) THEN 65 + IndexOf(UpperLetters, c)
    ELSE IF IsLower(c) THEN 97 + IndexOf(LowerLetters, c)
    ELSE IF IsDigit(c) THEN 48 + DigitVal(c)
    ELSE IF c = " " THEN 32
    ELSE IF c = "-" THEN 45
    ELSE 95

\* One round of the loop of hashStringToInt on the 32-bit hash held as two
\* 16-bit halves: hash = ((hash << 5) + hash) + code; hash |= 0.
HashStep(hash, code) ==
    LET low == 33 * hash.lo + code
    IN  [hi |-> (33 * hash.hi + (low \div 65536)) % 65536, lo |-> low % 65536]

RECURSIVE HashLoop(_, _, _)
HashLoop(input, i, hash) ==
    IF i > Len(input) THEN hash
    ELSE HashLoop(input, i + 1, HashStep(hash, CharCodeAt(CharAt(input, i))))

\* Math.abs of the signed 32-bit integer held in the two halves.
AbsInt32(hash) ==
    IF hash.hi < 32768 THEN hash.hi * 65536 + hash.lo
    ELSE (65535 - hash.hi) * 65536 + (65536 - hash.lo)

hashStringToInt(input) ==
    AbsInt32(HashLoop(input, 1, [hi |-> 5381 \div 65536, lo |-> 5381 % 65536]))

hslColor(h, s, l) == "hsl(" \o Pad(h % 360, 1) \o ", " \o Pad(s, 1) \o "%, " \o Pad(l, 1) \o "%)"

HexDigits == "0123456789abcdef"
\* n.toString(16).padStart(2, '0') for 0 <= n <= 255
toHex(n) == CharAt(HexDigits, (n \div 16) + 1) \o CharAt(HexDigits, (n % 16) + 1)
\* Math.round of a number that is not NaN
MathRound(a) == MathFloor(NumAdd(a, Rat(1, 2)))
Clamp100(v) == IF v < 0 THEN 0 ELSE IF v > 100 THEN 100 ELSE v
Channel(c1, m) == toHex(MathRound(NumMul(NumAdd(c1, m), Num(255))).n)

\* The three channels of the sector _h lies in, shifted by m and printed.
HexOfSector(_h, c, x, m) ==
    LET zero == Num(0)
        rgb == IF _h < 60 THEN <<c, x, zero>>
               ELSE IF _h < 120 THEN <<x, c, zero>>
               ELSE IF _h < 180 THEN <<zero, c, x>>
               ELSE IF _h < 240 THEN <<zero, x, c>>
               ELSE IF _h < 300 THEN <<x, zero, c>>
               ELSE <<c, zero, x>>
    IN  "#" \o Channel(rgb[1], m) \o Channel(rgb[2], m) \o Channel(rgb[3], m)

hslToHex(h, s, l) ==
    LET _h == ((h % 360) + 360) % 360
        _s == Rat(Clamp100(s), 100)
        _l == Rat(Clamp100(l), 100)
        twice == NumSub(NumMul(Num(2), _l), Num(1))
        c == NumMul(NumSub(Num(1), Rat(Abs(twice.n), twice.d)), _s)
        \* (_h / 60) % 2 - 1 is ((_h % 120) - 60) / 60
        x == NumMul(c, NumSub(Num(1), Rat(Abs((_h % 120) - 60), 60)))
        m == NumSub(_l, NumDiv(c, Num(2)))
    IN  HexOfSector(_h, c, x, m)

\* The colour text the running build makes of a hue.
ColorOfHue(format, hue) == IF format = "hsl" THEN hslColor(hue, 72, 42) ELSE hslToHex(hue, 72, 42)

\* The while loop of getBehaviorColor: step the hue by the golden angle
\* while the colour is taken, at most 360 times.
RECURSIVE FreeHue(_, _, _, _)
FreeHue(format, used, hue, attempts) ==
    IF ToLowerCase(ColorOfHue(format, hue)) \in used /\ attempts < 360
    THEN FreeHue(format, used, (hue + 137) % 360, attempts + 1)
    ELSE hue

\* getBehaviorColor without its while loop: the hashed hue is taken as it is.
NewColor_NoStep(format, used, behavior) ==
    ColorOfHue(format, hashStringToInt(ToLowerCase(Trim(behavior))) % 360)

\* The colour getBehaviorColor computes for a label that has none yet.
NewColor(format, used, behavior) ==
    ColorOfHue(format, FreeHue(format, used, hashStringToInt(ToLowerCase(Trim(behavior))) % 360, 0))

(***************************************************************************)
(* State                                                                   *)
(***************************************************************************)
VARIABLES
    env,            \* the browser: local UTC offset (minutes) and hour-cycle quirk
    now,            \* the time value Date.now() returns
    query,          \* the arguments of the running fetchBehaviorSummary call
    pc,             \* where the fetchBehaviorSummary call stands
    response,       \* what getAnteaterTimelineApi answered
    rawEvents,      \* the local `events` of fetchBehaviorEvents after unwrapping
    eventsResult,   \* what the promise of fetchBehaviorEvents settled with
    summaryResult,  \* what the promise of fetchBehaviorSummary settled with
    record,         \* the raw record handed to transformBehaviorEvent
    outcome,        \* what transformBehaviorEvent returned or threw
    input,          \* the argument of the helper function being applied
    output,         \* what the helper function returned or threw
    hookArgs,       \* the arguments of the query hook in the latest render
    queryCache,     \* React Query's cache: one entry (query hash, data) per query
    inFlight,       \* the query functions started and not yet settled
    renders,        \* how many times the component has rendered
    colorFormat,    \* which build of utils/formatting.ts runs: "hsl" or "hex" colours
    assignedColors, \* formatting.ts: the colours given to labels outside behaviorColors
    usedColors,     \* formatting.ts: the lower-cased colours already taken
    colorLog,       \* the getBehaviorColor calls made so far: label and returned colour
    dateRange,      \* DateRangeProvider: the dateRange state, Null before it mounts
    sessionStorage, \* what sessionStorage holds under STORAGE_KEY, Null when nothing
    initializing,   \* where the provider's initializeDateRange effect stands
    userRange       \* the range the user last selected, Null when none yet

coreVars ==
    <<env, now, query, pc, response, rawEvents, eventsResult, summaryResult, record,
      outcome, input, output>>
hookVars == <<hookArgs, queryCache, inFlight, renders>>
colorVars == <<colorFormat, assignedColors, usedColors, colorLog>>
rangeVars == <<dateRange, sessionStorage, initializing, userRange>>
uiVars == <<colorVars, rangeVars>>
vars == <<coreVars, hookVars, uiVars>>

MaxTicks == 2
MaxRecords == 2
MaxEvents == 3

Pending == [k |-> "pending"]
Envs == [offsetMin : {-240, 60}, midnightIs24 : BOOLEAN]
Clock == {Num(1000 * i) : i \in 1..MaxTicks}
Randoms == {"0.25", "0.75"}

\* p ++ q: the properties of p and of q in one property list.
Absent == [key \in {} |-> Undef]
RECURSIVE Merge(_)
Merge(ps) == IF Len(ps) = 0 THEN Absent ELSE Head(ps) @@ Merge(Tail(ps))

\* All sequences over S of length at most n.
RECURSIVE SeqsUpTo(_, _)
SeqsUpTo(S, n) ==
    IF n = 0 THEN {<<>>}
    ELSE LET shorter == SeqsUpTo(S, n - 1)
         IN  shorter \cup {Append(s, e) : s \in {q \in shorter : Len(q) = n - 1}, e \in S}

(***************************************************************************)
(* Inputs: raw records as the backend sends them                           *)
(***************************************************************************)
BehaviourKeyVariants ==
    {"Behaviour", "behaviour", "behavior_type", "behaviour_type", "behavior", "Behavior"}
BehaviourCodes == {"PACING", "FOO-BAR"}
BehaviourOptions ==
    {key :> Str(code) : key \in BehaviourKeyVariants, code \in BehaviourCodes}
    \cup {Absent, "behaviour" :> Str(""), "behaviour" :> Num(5)}
StartOptions ==
    {Absent,
     "start_datetime" :> Str(""),
     "start_datetime" :> Str("2025-10-20 02:52:05"),
     "StartTime" :> Str("2025-10-20T02:52:05Z"),
     "start_datetime" :> Str("not a date"),
     "start_time" :> Str("Tomorrow"),
     "timestamp" :> Num(5)}
EndOptions ==
    {Absent,
     "EndTime" :> Str("2025-10-20T02:53:35Z"),
     "end_datetime" :> Str("2025-10-20 02:50:00"),
     "end_time" :> Str("never")}
DurationOptions ==
    {Absent, "duration" :> Str("00:01:00"), "duration" :> Str("abc"), "duration" :> Num(45),
     "duration" :> Str("01:02:03"), "duration" :> Str("00:00:45"),
     "duration" :> Str("1:02:03")}
DurationSecondsOptions ==
    {Absent, "duration_seconds" :> Num(30), "duration_seconds" :> Num(-5),
     "duration_seconds" :> Rat(5, 2), "duration_seconds" :> Num(0)}

RawRecords ==
    {Obj(Merge(<<b, s, e, d, ds>>)) :
        b \in BehaviourOptions, s \in StartOptions, e \in EndOptions,
        d \in DurationOptions, ds \in DurationSecondsOptions}
    \cup {Null, Undef, Num(0), Num(5), Str("")}

(***************************************************************************)
(* transformBehaviorEvent applied to one raw record                        *)
(***************************************************************************)
\* No component has rendered a query hook yet.
NoQueries == hookArgs = Null /\ queryCache = {} /\ inFlight = {} /\ renders = 0

\* The module state of formatting.ts when it has just been loaded.
NoColors ==
    /\ assignedColors = <<>> /\ usedColors = StaticUsedColors /\ colorLog = <<>>

\* The DateRangeProvider has not mounted yet.
NoRange ==
    /\ dateRange = Null /\ sessionStorage = Null /\ initializing = "unmounted"
    /\ userRange = Null

\* No fetch under way and no query hook rendered.
NoFetch ==
    /\ query = Null /\ pc = "idle" /\ response = Undef /\ rawEvents = <<>>
    /\ eventsResult = Pending /\ summaryResult = Pending
    /\ NoQueries

\* Nothing of the user interface has run.
NoUi == colorFormat = "hsl" /\ NoColors /\ NoRange

Idle == NoFetch /\ NoUi

InitTransform ==
    /\ env \in {e \in Envs : ~e.midnightIs24}
    /\ now = Num(1000)
    /\ Idle
    /\ record \in RawRecords
    /\ outcome = Pending
    /\ input = Null
    /\ output = Pending

\* One call of transformBehaviorEvent(record).
TransformBehaviorEvent ==
    /\ outcome = Pending
    /\ \E random \in Randoms :
          outcome' = transformBehaviorEvent(record, now, random, env.offsetMin)
    /\ UNCHANGED <<env, now, query, pc, response, rawEvents, eventsResult, summaryResult,
                   record, input, output, hookVars, uiVars>>

NextTransform == TransformBehaviorEvent

SpecTransform == InitTransform /\ [][NextTransform]_vars

(***************************************************************************)
(* Properties of transformBehaviorEvent (under SpecTransform)              *)
(***************************************************************************)
Transformed == outcome # Pending
IsRecord(v) == v.k = "object"

\* The record with its property `from` renamed to `to`.
Renamed(rec, from, to) ==
    Obj([key \in (DOMAIN rec.f \ {from}) \cup {to} |->
            IF key = to THEN rec.f[from] ELSE rec.f[key]])

\* The behaviour key variants a record carries.
VariantsIn(rec) == IF IsRecord(rec) THEN DOMAIN rec.f \cap BehaviourKeyVariants ELSE {}

\* C2: a record that holds a behaviour code under exactly one of the key
\* variants Behaviour, behaviour, behavior_type, behaviour_type, behavior,
\* Behavior gets the same behaviour label as the record that holds the same
\* code under any other of these variants.
C2_LabelIndependentOfKeyVariant ==
    (Transformed /\ Cardinality(VariantsIn(record)) = 1) =>
        \A from \in VariantsIn(record) : \A to \in BehaviourKeyVariants :
            LET other == transformBehaviorEvent(Renamed(record, from, to), now, "0.25",
                                                env.offsetMin)
            IN  /\ IsThrow(other) <=> IsThrow(outcome)
                /\ ~IsThrow(outcome) => other.behavior_type = outcome.behavior_type

\* C3: transformBehaviorEvent returns an Event for every raw record that is a
\* key-value structure, whatever subset of the optional fields it carries; it
\* throws only when the record is not a usable key-value structure.
C3_ThrowsOnlyForNonRecords ==
    (Transformed /\ IsRecord(record)) => outcome.k = "event"

StartValue(rec) == OrChain(Props(rec, StartKeys))
EndValue(rec) == OrChain(Props(rec, EndKeys))
\* Whether s is the text of a date in one of the encodings the backend uses
\* (ISO-8601, "YYYY-MM-DD HH:mm:ss" with or without " (Www)", RFC-2822, bare date).
IsDateText(s) ==
    LET iso == IF IsSpaceDateTime(s) THEN ReplaceFirstSpace(s)
               ELSE IF IsSpaceDateTimeDay(s) THEN ReplaceFirstSpace(Sub(s, 0, 19))
               ELSE s
    IN  ~IsNaN(DateParse(iso, env.offsetMin))
\* A start/end value that is empty, absent or not the text of a date.
Unparseable(v) == ~Truthy(v) \/ ~IsString(v) \/ ~IsDateText(v.s)

\* C4: formatTimestamp never raises, and for an empty, absent or unparseable
\* start or end value it returns the current instant: no timestamp value makes
\* transformBehaviorEvent throw.
C4_TimestampNeverRaises ==
    (Transformed /\ IsRecord(record)) =>
        \A v \in {StartValue(record), EndValue(record)} :
            LET formatted == formatTimestamp(v, now, env.offsetMin)
            IN  /\ ~IsThrow(formatted)
                /\ outcome # Throw("RangeError")
                /\ Unparseable(v) => formatted = Str(ToISOString(now))

\* C7: duration_seconds of every Event is a non-negative integer.
C7_DurationNonNegativeInteger ==
    outcome.k = "event" =>
        /\ IsInteger(outcome.duration_seconds)
        /\ outcome.duration_seconds.n >= 0

\* The record without the given property.
Without(rec, key) == Obj([k \in DOMAIN rec.f \ {key} |-> rec.f[k]])

\* A duration field that holds a string not of the form H:MM:SS or HH:MM:SS.
MalformedDuration(rec) ==
    /\ IsRecord(rec)
    /\ IsString(Prop(rec, "duration"))
    /\ Prop(rec, "duration").s # ""
    /\ ~MatchesDuration(Prop(rec, "duration").s)

\* C12: a duration string that does not match H:MM:SS / HH:MM:SS raises no
\* exception and resolution continues with the numeric duration fields and
\* then the start/end delta: the record resolves to the duration and end it
\* has without the malformed field.
C12_MalformedDurationFallsThrough ==
    (Transformed /\ MalformedDuration(record)) =>
        LET other == transformBehaviorEvent(Without(record, "duration"), now, "0.25",
                                            env.offsetMin)
        IN  /\ IsThrow(outcome) <=> IsThrow(other)
            /\ ~IsThrow(outcome) =>
                  /\ outcome.duration_seconds = other.duration_seconds
                  /\ outcome.end_timestamp = other.end_timestamp

\* The value of the first key of keys that the record defines, else default.
RECURSIVE FirstDefined(_, _, _)
FirstDefined(rec, keys, default) ==
    IF Len(keys) = 0 THEN default
    ELSE IF Prop(rec, Head(keys)) # Undef THEN Prop(rec, Head(keys))
    ELSE FirstDefined(rec, Tail(keys), default)

\* An event object was returned for the record.
Returned == Transformed /\ IsRecord(record) /\ ~IsThrow(outcome)

\* C17: a field resolved over an ordered list of candidate keys takes the
\* value of the first candidate the record defines, also when that value is
\* falsy (0 or ""); a later candidate or the default is used only when every
\* earlier candidate is absent.  Stated for the behaviour code, the camera,
\* the video URL and the thumbnail.
C17_FirstDefinedCandidateWins ==
    Returned =>
        /\ IsString(FirstDefined(record, BehaviourKeys, Str("RECUMBENT"))) =>
              outcome.raw_behavior_type =
                 FirstDefined(record, BehaviourKeys, Str("RECUMBENT"))
        /\ outcome.camera_source =
              FirstDefined(record, <<"camera_source", "CameraSource", "camera",
                                     "camera_name">>, Str("Unknown"))
        /\ outcome.raw_video_url = FirstDefined(record, VideoKeys, Str(""))
        /\ outcome.thumbnail_url =
              FirstDefined(record, <<"thumbnail_url", "ThumbnailUrl", "thumbnail",
                                     "thumbnail_path", "image_url">>, Str(""))

DurationKeys == <<"duration", "duration_seconds", "frame_time_seconds", "duration_sec">>

DurationValues(rec) == {Prop(rec, DurationKeys[i]) : i \in 1..Len(DurationKeys)}

\* The durations a record states: the numbers under its duration keys and the
\* seconds of a clock string under them.
ExplicitDurations(rec) ==
    {v \in DurationValues(rec) : IsNumber(v)}
    \cup {parseDurationString(v) :
            v \in {w \in DurationValues(rec) : IsString(w) /\ MatchesDuration(w.s)}}

\* The record states its start and its end, both as the text of a date.
InstantsKnown(rec) ==
    IsRecord(rec) /\ ~Unparseable(StartValue(rec)) /\ ~Unparseable(EndValue(rec))

\* The instant (ms) a start or end value stands for.
InstantOf(v) == DateParse(formatTimestamp(v, now, env.offsetMin).s, env.offsetMin)

\* Whole seconds from the record's start to its end, 0 when the end precedes
\* the start.
WholeSecondsBetween(rec) ==
    MathMax(Num(0),
            MathFloor(NumDiv(NumSub(InstantOf(EndValue(rec)), InstantOf(StartValue(rec))),
                             Num(1000))))

\* C18: with both instants known, a record that states no duration, or only
\* the duration 0, gets duration_seconds = max(0, end - start) in whole
\* seconds; a record that states a non-zero duration keeps a stated non-zero
\* duration, whatever end - start is.
C18_DeltaOnlyWithoutExplicitDuration ==
    (Returned /\ InstantsKnown(record)) =>
        /\ ExplicitDurations(record) \subseteq {Num(0)} =>
              outcome.duration_seconds = WholeSecondsBetween(record)
        /\ ExplicitDurations(record) \ {Num(0)} # {} =>
              outcome.duration_seconds \in ExplicitDurations(record) \ {Num(0)}

\* The instant durationSeconds after the start of the returned event, as
\* toISOString prints it.
StartPlus(durationSeconds) ==
    Str(ToISOString(TimeClip(
        NumAdd(DateParse(outcome.start_timestamp.s, env.offsetMin),
               NumMul(durationSeconds, Num(1000))))))

\* C19: the end timestamp of an Event is the record's end whenever the record
\* has one; without an end and with a positive resolved duration it is the
\* start plus that many seconds; without an end and without a positive
\* duration it is the start, and duration_seconds is 0.
C19_EndSuppliedSynthesizedOrStart ==
    Returned =>
        IF Truthy(EndValue(record))
        THEN outcome.end_timestamp = formatTimestamp(EndValue(record), now, env.offsetMin)
        ELSE IF NumGt(RecordDuration(record), Num(0))
        THEN outcome.end_timestamp = StartPlus(RecordDuration(record))
        ELSE /\ outcome.end_timestamp = outcome.start_timestamp
             /\ outcome.duration_seconds = Num(0)

\* A record with a start, a duration of 30 seconds and no end got the end 30
\* seconds after its start.
C19_Witness ==
    /\ Returned
    /\ EndValue(record) = Undef
    /\ Prop(record, "start_datetime") = Str("2025-10-20 02:52:05")
    /\ Prop(record, "duration_seconds") = Num(30)
    /\ Prop(record, "duration") = Undef
    /\ env.offsetMin = 60
    /\ outcome.start_timestamp = Str("2025-10-20T01:52:05.000Z")
    /\ outcome.end_timestamp = Str("2025-10-20T01:52:35.000Z")
    /\ outcome.duration_seconds = Num(30)

\* The record's duration field holds a string of the form H:MM:SS or HH:MM:SS.
ClockDuration(rec) ==
    /\ IsRecord(rec)
    /\ IsString(Prop(rec, "duration"))
    /\ MatchesDuration(Prop(rec, "duration").s)

\* The two-digit number at positions i and i + 1 of s.
TwoDigits(s, i) == 10 * DigitVal(CharAt(s, i)) + DigitVal(CharAt(s, i + 1))

\* hours * 3600 + minutes * 60 + seconds of a clock string.
SecondsOfClock(s) ==
    IF Len(s) = 7 THEN 3600 * DigitVal(CharAt(s, 1)) + 60 * TwoDigits(s, 3) + TwoDigits(s, 6)
    ELSE 3600 * TwoDigits(s, 1) + 60 * TwoDigits(s, 4) + TwoDigits(s, 7)

\* The record without its numeric duration fields.
WithoutNumericDurations(rec) ==
    Without(Without(Without(rec, "duration_seconds"), "frame_time_seconds"), "duration_sec")

\* The Event the record yields without its numeric duration fields.
ClockOnlyEvent ==
    transformBehaviorEvent(WithoutNumericDurations(record), now, "0.25", env.offsetMin)

\* C20: a duration string of the form H:MM:SS or HH:MM:SS resolves to
\* hours * 3600 + minutes * 60 + seconds ("01:02:03" to 3723, "00:00:45" to
\* 45), and it takes priority over every numeric duration field of the same
\* record: the Event has the duration and the end the record yields without
\* those fields.
C20_ClockStringParsedAndPreferred ==
    /\ parseDurationString(Str("01:02:03")) = Num(3723)
    /\ parseDurationString(Str("00:00:45")) = Num(45)
    /\ (Returned /\ ClockDuration(record)) =>
          /\ RecordDuration(record) = Num(SecondsOfClock(Prop(record, "duration").s))
          /\ SecondsOfClock(Prop(record, "duration").s) # 0 =>
                outcome.duration_seconds = Num(SecondsOfClock(Prop(record, "duration").s))
          /\ outcome.duration_seconds = ClockOnlyEvent.duration_seconds
          /\ outcome.end_timestamp = ClockOnlyEvent.end_timestamp

\* A record with the duration string "01:02:03" and duration_seconds 30 got
\* the duration 3723.
C20_Witness ==
    /\ Returned
    /\ Prop(record, "duration") = Str("01:02:03")
    /\ Prop(record, "duration_seconds") = Num(30)
    /\ outcome.duration_seconds = Num(3723)

(***************************************************************************)
(* Inputs: API responses                                                   *)
(***************************************************************************)
\* The two records of the end-to-end scenario.
PacingRecord ==
    Obj(Merge(<<"start_datetime" :> Str("2025-10-20 02:52:05"),
                "behaviour" :> Str("PACING"),
                "duration" :> Str("00:01:00")>>))
RecumbentStoppedRecord ==
    Obj(Merge(<<"StartTime" :> Str("2025-10-20T02:52:05Z"),
                "Behavior" :> Str("RECUMBENT_STOPPED"),
                "EndTime" :> Str("2025-10-20T02:53:35Z")>>))

SampleRecords ==
    {PacingRecord,
     RecumbentStoppedRecord,
     Obj(Merge(<<"id" :> Num(7), "behaviour" :> Str("PACING")>>)),
     Obj(Merge(<<"ID" :> Str("7"), "behaviour" :> Str("SCRATCHING")>>)),
     Obj("start_datetime" :> Str("not a date")),
     Obj(Merge(<<"behaviour" :> Str(""), "Behavior" :> Str("PACING")>>)),
     Null}

\* The one-record list a response holds under wrapper key `key`.
ListUnder(key) == <<Obj("id" :> Str(key))>>

\* A wrapper key is absent, null, or holds its list.
WrapperOptions(key) == {Absent, key :> Null, key :> Arr(ListUnder(key))}
ErrorOptions == {Absent, "error" :> Str(""), "error" :> Str("No data found")}
UnknownKeyOptions == {Absent, "unknown_key" :> Arr(ListUnder("unknown_key"))}

ObjectResponses ==
    {Obj(Merge(<<er, w1, w2, w3, w4, w5, un>>)) :
        er \in ErrorOptions,
        w1 \in WrapperOptions("timeline"), w2 \in WrapperOptions("behaviours"),
        w3 \in WrapperOptions("behaviors"), w4 \in WrapperOptions("data"),
        w5 \in WrapperOptions("events"), un \in UnknownKeyOptions}
ArrayResponses == {Arr(items) : items \in SeqsUpTo(SampleRecords, MaxRecords)}
OtherResponses == {Null, Str("Internal Server Error"), Num(5)}
Responses == ObjectResponses \cup ArrayResponses \cup OtherResponses

(***************************************************************************)
(* fetchBehaviorSummary: the API call, fetchBehaviorEvents, the summary    *)
(***************************************************************************)
DateArguments == {Undef, Str("2025-10-20")}

Init ==
    /\ env \in Envs
    /\ now = Num(1000)
    /\ Idle
    /\ record = Null
    /\ outcome = Pending
    /\ input = Null
    /\ output = Pending

\* fetchBehaviorSummary(_preset, startDate, endDate): without both dates the
\* call throws; otherwise fetchBehaviorEvents issues the API call and waits.
FetchBehaviorSummary ==
    /\ pc = "idle"
    /\ \E startDate \in DateArguments, endDate \in DateArguments :
          /\ query' = [startDate |-> startDate, endDate |-> endDate]
          /\ IF ~Truthy(startDate) \/ ~Truthy(endDate)
             THEN /\ pc' = "settled"
                  /\ summaryResult' =
                        Throw("Error: startDate and endDate are required for behavior summary")
             ELSE /\ pc' = "awaitingApi"
                  /\ UNCHANGED summaryResult
    /\ UNCHANGED <<env, now, response, rawEvents, eventsResult, record, outcome, input, output, hookVars, uiVars>>

\* The API answers; fetchBehaviorEvents runs to its end and settles its promise.
ApiResolves ==
    /\ pc = "awaitingApi"
    /\ \E r \in Responses, t \in Clock, random \in Randoms :
          /\ ~NumLt(t, now)
          /\ now' = t
          /\ response' = r
          /\ rawEvents' = UnwrapResponse(r).items
          /\ eventsResult' = fetchBehaviorEvents(r, Undef, t, random, env.offsetMin)
    /\ pc' = "eventsSettled"
    /\ UNCHANGED <<env, query, summaryResult, record, outcome, input, output, hookVars, uiVars>>

\* The API call fails; fetchBehaviorEvents logs and rethrows.
ApiRejects ==
    /\ pc = "awaitingApi"
    /\ eventsResult' = Throw("NetworkError")
    /\ pc' = "eventsSettled"
    /\ UNCHANGED <<env, now, query, response, rawEvents, summaryResult, record, outcome, input, output, hookVars, uiVars>>

\* fetchBehaviorSummary resumes with the events (or the exception).
SummaryResumes ==
    /\ pc = "eventsSettled"
    /\ summaryResult' =
          IF IsThrow(eventsResult) THEN eventsResult
          ELSE [k |-> "ok",
                summary |-> generateSummaryFromEvents(eventsResult.events, env.offsetMin,
                                                      env.midnightIs24)]
    /\ pc' = "settled"
    /\ UNCHANGED <<env, now, query, response, rawEvents, eventsResult, record, outcome, input, output, hookVars, uiVars>>

Next == FetchBehaviorSummary \/ ApiResolves \/ ApiRejects \/ SummaryResumes

Spec == Init /\ [][Next]_vars


(***************************************************************************)
(* Properties of fetchBehaviorEvents and the pipeline (under Spec)         *)
(***************************************************************************)
ApiAnswered == pc \in {"eventsSettled", "settled"} /\ response # Undef
HasKey(obj, key) == obj.k = "object" /\ key \in DOMAIN obj.f

\* The aggregates of the summary that carry the given label.
AggregatesOf(summary, label) ==
    SelectSeq(summary.behaviors, LAMBDA b : b.behavior_type = Str(label))
HasAggregate(summary, label, count, total) ==
    /\ Len(AggregatesOf(summary, label)) = 1
    /\ AggregatesOf(summary, label)[1].count = Num(count)
    /\ AggregatesOf(summary, label)[1].total_duration_seconds = Num(total)

\* C1: normalising and aggregating the two scenario records (PACING with
\* duration '00:01:00'; Behavior RECUMBENT_STOPPED with EndTime 90 s after
\* StartTime) yields 2 total events, the aggregates 'Pacing' (count 1, total
\* 60 s) and 'Recumbent Stopped' (count 1, total 90 s), the first-seen label as
\* most frequent and 150 monitored seconds.
C1_EndToEndScenario ==
    (pc = "settled" /\ response = Arr(<<PacingRecord, RecumbentStoppedRecord>>)) =>
        /\ summaryResult.k = "ok"
        /\ summaryResult.summary.total_behaviors = Num(2)
        /\ Len(summaryResult.summary.behaviors) = 2
        /\ HasAggregate(summaryResult.summary, "Pacing", 1, 60)
        /\ HasAggregate(summaryResult.summary, "Recumbent Stopped", 1, 90)
        /\ summaryResult.summary.most_frequent_behavior = Str("Pacing")
        /\ summaryResult.summary.total_monitored_seconds = Num(150)

\* The wrapper keys of the response that hold an array, in priority order.
ArrayKeys(resp) == SelectSeq(WrapperKeys, LAMBDA key : IsArray(Prop(resp, key)))

\* C5: unwrapping returns the value of the first of the keys timeline,
\* behaviours, behaviors, data, events whose value is an array; a key of
\* higher priority that holds a non-array value does not block a lower one.
C5_FirstArrayValuedWrapperKey ==
    (ApiAnswered /\ response.k = "object" /\ ~HasKey(response, "error")
       /\ Len(ArrayKeys(response)) > 0) =>
        rawEvents = Prop(response, ArrayKeys(response)[1]).items

\* A response of no recognised shape: not an array, and no wrapper key that
\* holds an array.
Unrecognised(resp) == ~IsArray(resp) /\ Len(ArrayKeys(resp)) = 0
EmptyResult == eventsResult = [k |-> "ok", events |-> <<>>]

\* C6 as stated: unwrapping never throws; an object with an `error` key and a
\* response of no recognised shape yield the empty list; a bare array yields
\* itself and {timeline: [...]} yields that list.
C6_ErrorKeyYieldsEmptyList ==
    ApiAnswered =>
        /\ IsArray(response) => rawEvents = response.items
        /\ HasKey(response, "error") => rawEvents = <<>> /\ EmptyResult
        /\ Unrecognised(response) => rawEvents = <<>> /\ EmptyResult
        /\ (response.k = "object" /\ ~HasKey(response, "error")
              /\ IsArray(Prop(response, "timeline"))) =>
               rawEvents = Prop(response, "timeline").items

\* C6, amended: unwrapping never throws; an object whose `error` value is
\* truthy and a response of no recognised shape yield the empty list; a bare
\* array yields itself, and {timeline: [...]} without a truthy `error` yields
\* that list.
C6_TruthyErrorYieldsEmptyList ==
    ApiAnswered =>
        /\ IsArray(response) => rawEvents = response.items
        /\ Truthy(Prop(response, "error")) => rawEvents = <<>> /\ EmptyResult
        /\ Unrecognised(response) => rawEvents = <<>> /\ EmptyResult
        /\ (response.k = "object" /\ ~Truthy(Prop(response, "error"))
              /\ IsArray(Prop(response, "timeline"))) =>
               rawEvents = Prop(response, "timeline").items

\* An error response that also carries a timeline has been unwrapped to the
\* empty list.
C6_Witness ==
    /\ ApiAnswered
    /\ Truthy(Prop(response, "error"))
    /\ IsArray(Prop(response, "timeline"))
    /\ rawEvents = <<>>
    /\ EmptyResult

\* C8: in the list one fetchBehaviorEvents call returns, every Event has an
\* id and no two Events share an id.
C8_IdsPresentAndUnique ==
    (ApiAnswered /\ eventsResult.k = "ok") =>
        /\ \A i \in 1..Len(eventsResult.events) :
              /\ IsString(eventsResult.events[i].id)
              /\ eventsResult.events[i].id.s # ""
        /\ \A i, j \in 1..Len(eventsResult.events) :
              i # j => eventsResult.events[i].id # eventsResult.events[j].id

(***************************************************************************)
(* generateSummaryFromEvents applied to fetched events                     *)
(***************************************************************************)
SummaryCodes == {"PACING", "SCRATCHING"}
SummaryStarts == {"2025-10-20T04:30:00Z", "2025-10-20T14:00:00Z"}
SummaryDurations == {Num(0), Num(10), Num(20)}
\* PACING records start in either hour, SCRATCHING records in the first.
SummaryRecords ==
    {Obj(Merge(<<"behaviour" :> Str(code), "StartTime" :> Str(start),
                 "duration_seconds" :> d>>)) :
        code \in SummaryCodes, start \in SummaryStarts, d \in SummaryDurations}
    \ {Obj(Merge(<<"behaviour" :> Str("SCRATCHING"),
                   "StartTime" :> Str("2025-10-20T14:00:00Z"),
                   "duration_seconds" :> d>>)) : d \in SummaryDurations}
SummaryResponses == {Arr(items) : items \in SeqsUpTo(SummaryRecords, MaxEvents)}

\* fetchBehaviorSummary at the point where fetchBehaviorEvents has settled
\* with the events of an array response.
InitSummary ==
    /\ env \in {e \in Envs : e.offsetMin = -240}
    /\ now = Num(1000)
    /\ query = [startDate |-> Str("2025-10-20"), endDate |-> Str("2025-10-20")]
    /\ pc = "eventsSettled"
    /\ response \in SummaryResponses
    /\ rawEvents = UnwrapResponse(response).items
    /\ eventsResult = fetchBehaviorEvents(response, Undef, now, "0.25", env.offsetMin)
    /\ summaryResult = Pending
    /\ NoQueries
    /\ NoUi
    /\ record = Null
    /\ outcome = Pending
    /\ input = Null
    /\ output = Pending

NextSummary == SummaryResumes

SpecSummary == InitSummary /\ [][NextSummary]_vars

(***************************************************************************)
(* Properties of the summary and the heatmap (under SpecSummary)           *)
(***************************************************************************)
SummaryDone == pc = "settled" /\ summaryResult.k = "ok"
Labels == {eventsResult.events[i].behavior_type : i \in 1..Len(eventsResult.events)}

\* The durations of the fetched events that carry the label, in order.
DurationsOf(label) ==
    LET es == SelectSeq(eventsResult.events, LAMBDA e : e.behavior_type = label)
    IN  [i \in 1..Len(es) |-> es[i].duration_seconds]
RECURSIVE Total(_)
Total(ds) == IF Len(ds) = 0 THEN Num(0) ELSE NumAdd(Head(ds), Total(Tail(ds)))
Positive(ds) == {ds[i] : i \in {j \in 1..Len(ds) : NumGt(ds[j], Num(0))}}
Least(S) == IF S = {} THEN Num(0) ELSE CHOOSE x \in S : \A y \in S : ~NumLt(y, x)
Greatest(S) == IF S = {} THEN Num(0) ELSE CHOOSE x \in S : \A y \in S : ~NumGt(y, x)

\* C9: every label of the events has exactly one aggregate, whose count is the
\* number of events with the label, whose total is the sum of their durations,
\* whose average is total/count, and whose min and max are taken over the
\* events with duration > 0 and are 0 when there is none.
C9_PerLabelAggregates ==
    SummaryDone =>
        LET behaviors == summaryResult.summary.behaviors
        IN  /\ {behaviors[j].behavior_type : j \in 1..Len(behaviors)} = Labels
            /\ Len(behaviors) = Cardinality(Labels)
            /\ \A j \in 1..Len(behaviors) :
                  LET ds == DurationsOf(behaviors[j].behavior_type)
                  IN  /\ behaviors[j].count = Num(Len(ds))
                      /\ behaviors[j].total_duration_seconds = Total(ds)
                      /\ behaviors[j].average_duration_seconds =
                             NumDiv(Total(ds), Num(Len(ds)))
                      /\ behaviors[j].min_duration_seconds = Least(Positive(ds))
                      /\ behaviors[j].max_duration_seconds = Greatest(Positive(ds))

\* Three events of one label with durations 10, 0, 20 have been aggregated to
\* min 10, max 20, average 10.
C9_Witness ==
    /\ SummaryDone
    /\ \E j \in 1..Len(summaryResult.summary.behaviors) :
          LET b == summaryResult.summary.behaviors[j]
          IN  /\ DurationsOf(b.behavior_type) = <<Num(10), Num(0), Num(20)>>
              /\ b.min_duration_seconds = Num(10)
              /\ b.max_duration_seconds = Num(20)
              /\ b.average_duration_seconds = Num(10)

\* The cells of the heatmap for one label and one hour.
CellsAt(heatmap, label, hour) ==
    {c \in 1..Len(heatmap) :
        heatmap[c].behavior_type = label /\ heatmap[c].hour = Num(hour)}
\* The zoo hours in which the events with the label start.
HoursOf(label) ==
    {getZooHour(eventsResult.events[i].start_timestamp, env.offsetMin, env.midnightIs24) :
        i \in {j \in 1..Len(eventsResult.events) :
                  eventsResult.events[j].behavior_type = label}}

\* C10: for a non-empty Event list with k distinct labels the heatmap has
\* exactly 24*k cells: one cell for every label and every hour 0..23, with
\* zero count and duration when no event falls in it.
C10_HeatmapComplete ==
    (SummaryDone /\ Len(eventsResult.events) > 0) =>
        LET heatmap == summaryResult.summary.hourly_heatmap
        IN  /\ Len(heatmap) = 24 * Cardinality(Labels)
            /\ \A label \in Labels :
                  LET hours == HoursOf(label)
                  IN  \A hour \in 0..23 :
                        /\ Cardinality(CellsAt(heatmap, label, hour)) = 1
                        /\ Num(hour) \notin hours =>
                              \A c \in CellsAt(heatmap, label, hour) :
                                  /\ heatmap[c].count = Num(0)
                                  /\ heatmap[c].duration_seconds = Num(0)

\* Events of two labels have produced a heatmap of 48 cells, some of them
\* without any event.
C10_Witness ==
    /\ SummaryDone
    /\ Cardinality(Labels) = 2
    /\ Len(summaryResult.summary.hourly_heatmap) = 48
    /\ \E c \in 1..48 : summaryResult.summary.hourly_heatmap[c].count = Num(0)
    /\ \E c \in 1..48 : summaryResult.summary.hourly_heatmap[c].count = Num(2)

\* The number of fetched events that carry the label.
CountOf(label) == Len(DurationsOf(label))
\* The position of the first fetched event that carries the label.
FirstIndexOf(label) ==
    CHOOSE i \in 1..Len(eventsResult.events) :
        /\ eventsResult.events[i].behavior_type = label
        /\ \A j \in 1..(i - 1) : eventsResult.events[j].behavior_type # label

\* C11: most_frequent_behavior is a label with the maximum event count, and
\* among the labels that share the maximum it is the one encountered first in
\* the event list.
C11_MostFrequentFirstSeen ==
    (SummaryDone /\ Len(eventsResult.events) > 0) =>
        LET most == summaryResult.summary.most_frequent_behavior
        IN  /\ most \in Labels
            /\ \A label \in Labels : CountOf(label) <= CountOf(most)
            /\ \A label \in Labels \ {most} :
                  CountOf(label) = CountOf(most) =>
                      FirstIndexOf(most) < FirstIndexOf(label)

\* Two labels tie at the maximum count and the summary names the one seen
\* first, which is not the first in alphabetical order.
C11_Witness ==
    /\ SummaryDone
    /\ Len(eventsResult.events) = 2
    /\ eventsResult.events[1].behavior_type = Str("Scratching")
    /\ eventsResult.events[2].behavior_type = Str("Pacing")
    /\ summaryResult.summary.most_frequent_behavior = Str("Scratching")

\* getZooHour of the start of every fetched event, in order.
ZooHours ==
    [i \in 1..Len(eventsResult.events) |->
        getZooHour(eventsResult.events[i].start_timestamp, env.offsetMin,
                   env.midnightIs24)]

\* The durations of the events with the label whose hour is the given one.
RECURSIVE DurationsIn(_, _, _, _)
DurationsIn(events, hours, label, hour) ==
    IF Len(events) = 0 THEN <<>>
    ELSE (IF Head(events).behavior_type = label /\ Head(hours) = hour
          THEN <<Head(events).duration_seconds>> ELSE <<>>)
         \o DurationsIn(Tail(events), Tail(hours), label, hour)

\* The cell counts the given durations and holds their sum.
CellHolds(cell, ds) ==
    cell.count = Num(Len(ds)) /\ cell.duration_seconds = Total(ds)

HeatmapMatches(heatmap, hours) ==
    \A c \in 1..Len(heatmap) :
        CellHolds(heatmap[c],
                  DurationsIn(eventsResult.events, hours, heatmap[c].behavior_type,
                              heatmap[c].hour))

\* C23: every heatmap cell (label, hour) counts the events with that label
\* whose start getZooHour places in that hour, and its duration_seconds is
\* the sum of the full durations of those events.
C23_CellCountsEventsStartingInHour ==
    (SummaryDone /\ Len(eventsResult.events) > 0) =>
        HeatmapMatches(summaryResult.summary.hourly_heatmap, ZooHours)

\* Two Pacing events of 10 and 20 seconds start in zoo hour 0 and a third one
\* of 10 seconds in zoo hour 10: the cell of hour 0 holds 2 and 30, the cell
\* of hour 10 holds 1 and 10.
C23_Witness ==
    /\ SummaryDone
    /\ ~env.midnightIs24
    /\ Len(eventsResult.events) = 3
    /\ \A i \in 1..3 : eventsResult.events[i].behavior_type = Str("Pacing")
    /\ ZooHours = <<Num(0), Num(0), Num(10)>>
    /\ summaryResult.summary.hourly_heatmap[1].count = Num(2)
    /\ summaryResult.summary.hourly_heatmap[1].duration_seconds = Num(30)
    /\ summaryResult.summary.hourly_heatmap[11].count = Num(1)
    /\ summaryResult.summary.hourly_heatmap[11].duration_seconds = Num(10)

(***************************************************************************)
(* generateSummaryFromEvents and the order of the events                   *)
(***************************************************************************)
\* Records of one hour; one of them states its duration as a JSON string.
ReorderRecords ==
    {Obj(Merge(<<"behaviour" :> Str("PACING"), "StartTime" :> Str("2025-10-20T14:00:00Z"),
                 "duration_seconds" :> d>>)) : d \in {Num(10), Num(20), Str("30")}}
    \cup {Obj(Merge(<<"behaviour" :> Str("SCRATCHING"),
                      "StartTime" :> Str("2025-10-20T14:00:00Z"),
                      "duration_seconds" :> Num(10)>>))}
ReorderResponses == {Arr(items) : items \in SeqsUpTo(ReorderRecords, MaxEvents)}

InitReorder ==
    /\ env \in {e \in Envs : e.offsetMin = -240}
    /\ now = Num(1000)
    /\ query = [startDate |-> Str("2025-10-20"), endDate |-> Str("2025-10-20")]
    /\ pc = "eventsSettled"
    /\ response \in ReorderResponses
    /\ rawEvents = UnwrapResponse(response).items
    /\ eventsResult = fetchBehaviorEvents(response, Undef, now, "0.25", env.offsetMin)
    /\ summaryResult = Pending
    /\ NoQueries
    /\ NoUi
    /\ record = Null
    /\ outcome = Pending
    /\ input = Null
    /\ output = Pending

NextReorder == SummaryResumes

SpecReorder == InitReorder /\ [][NextReorder]_vars

\* The Event lists with the same Events in another order.
Reorderings(events) ==
    {[i \in 1..Len(events) |-> events[p[i]]] : p \in Permutations(1..Len(events))}

\* The aggregate of the label in a summary.
AggregateOf(summary, label) ==
    summary.behaviors[CHOOSE j \in 1..Len(summary.behaviors) :
                          summary.behaviors[j].behavior_type = label]

\* Two summaries with the same totals and the same aggregate for every label.
SameAggregates(a, b) ==
    /\ a.total_behaviors = b.total_behaviors
    /\ a.total_monitored_seconds = b.total_monitored_seconds
    /\ Len(a.behaviors) = Len(b.behaviors)
    /\ \A j \in 1..Len(a.behaviors) :
          a.behaviors[j] = AggregateOf(b, a.behaviors[j].behavior_type)

\* C24: the per-label count, total, min, max, average and percentage, the
\* total event count and the total monitored seconds are the same for every
\* permutation of the Event list.
C24_AggregatesOrderIndependent ==
    SummaryDone =>
        \A events \in Reorderings(eventsResult.events) :
            SameAggregates(summaryResult.summary,
                           generateSummaryFromEvents(events, env.offsetMin,
                                                     env.midnightIs24))

\* The cells of the heatmap that carry the label.
CellsOf(heatmap, label) == SelectSeq(heatmap, LAMBDA c : c.behavior_type = label)
\* The sum of the cells' counts and of their durations, from cell i on.
RECURSIVE CountsFrom(_, _)
CountsFrom(cells, i) ==
    IF i > Len(cells) THEN Num(0) ELSE NumAdd(cells[i].count, CountsFrom(cells, i + 1))
RECURSIVE DurationsFrom(_, _)
DurationsFrom(cells, i) ==
    IF i > Len(cells) THEN Num(0)
    ELSE NumAdd(cells[i].duration_seconds, DurationsFrom(cells, i + 1))
CellCounts(cells) == CountsFrom(cells, 1)
CellDurations(cells) == DurationsFrom(cells, 1)

\* getZooHour places every fetched event in one of the hours 0..23.
HoursInRange == \A i \in 1..Len(ZooHours) : ZooHours[i] \in {Num(h) : h \in 0..23}

\* The 24 cells of the label add up to the aggregate of the label.
CellsAddUpTo(summary, label) ==
    /\ Len(CellsOf(summary.hourly_heatmap, label)) = 24
    /\ Len(AggregatesOf(summary, label.s)) = 1
    /\ CellCounts(CellsOf(summary.hourly_heatmap, label))
          = AggregatesOf(summary, label.s)[1].count
    /\ CellDurations(CellsOf(summary.hourly_heatmap, label))
          = AggregatesOf(summary, label.s)[1].total_duration_seconds

\* The counts of all cells, label by label.
RECURSIVE CountsOfLabels(_, _)
CountsOfLabels(heatmap, labels) ==
    IF labels = {} THEN Num(0)
    ELSE LET label == CHOOSE l \in labels : TRUE
         IN  NumAdd(CellCounts(CellsOf(heatmap, label)),
                    CountsOfLabels(heatmap, labels \ {label}))

\* C27: when getZooHour maps every start into 0..23, the counts of a label's
\* 24 heatmap cells add up to the label's aggregate count and their
\* duration_seconds to its total_duration_seconds, so the counts of all
\* cells add up to total_behaviors.
C27_CellsAddUpToAggregates ==
    (SummaryDone /\ HoursInRange) =>
        /\ \A label \in Labels : CellsAddUpTo(summaryResult.summary, label)
        /\ Len(eventsResult.events) > 0 =>
              /\ Len(summaryResult.summary.hourly_heatmap) = 24 * Cardinality(Labels)
              /\ CountsOfLabels(summaryResult.summary.hourly_heatmap, Labels)
                    = summaryResult.summary.total_behaviors

\* Three events of two labels, the Pacing ones in two different hours.
C27_Witness ==
    /\ SummaryDone /\ HoursInRange
    /\ Len(eventsResult.events) = 3
    /\ Labels = {Str("Pacing"), Str("Scratching")}
    /\ Cardinality(HoursOf(Str("Pacing"))) = 2
    /\ summaryResult.summary.total_behaviors = Num(3)
    /\ CellDurations(CellsOf(summaryResult.summary.hourly_heatmap, Str("Pacing"))) = Num(30)

(***************************************************************************)
(* getFrontendBehaviorType applied to one behaviour code                   *)
(***************************************************************************)
\* No fetch under way and no record being transformed.
Quiet ==
    /\ env = [offsetMin |-> 60, midnightIs24 |-> FALSE]
    /\ now = Num(1000)
    /\ Idle
    /\ record = Null
    /\ outcome = Pending

TableCodes ==
    {BACKEND_TO_FRONTEND_BEHAVIOR_MAP[i][1] : i \in 1..Len(BACKEND_TO_FRONTEND_BEHAVIOR_MAP)}
OtherCodes ==
    {"FOO-BAR", "FOO_BAR_START", "foo", "Walking", "EATING-START", "a_b-c", "X",
     "SELF_DIRECTED_FOO", "self_directed_", "SELF__DIRECTED", "Self Directed",
     "self-directed_start", "--", " PACING ", "constructor", "toString"}
LabelCodes == TableCodes \cup {ToLowerCase(c) : c \in TableCodes} \cup OtherCodes
LabelInputs == {Str(c) : c \in LabelCodes} \cup {Str(""), Undef, Null, Num(5)}

InitLabel ==
    /\ Quiet
    /\ input \in LabelInputs
    /\ output = Pending

\* One call of getFrontendBehaviorType(input).
GetFrontendBehaviorType ==
    /\ output = Pending
    /\ input \in LabelInputs
    /\ output' = getFrontendBehaviorType(input)
    /\ UNCHANGED <<env, now, query, pc, response, rawEvents, eventsResult, summaryResult,
                   record, outcome, input, hookVars, uiVars>>

NextLabel == GetFrontendBehaviorType

SpecLabel == InitLabel /\ [][NextLabel]_vars

(***************************************************************************)
(* Properties of getFrontendBehaviorType (under SpecLabel)                 *)
(***************************************************************************)
InTable(code) == code \in TableCodes
TableLabel(code) ==
    BACKEND_TO_FRONTEND_BEHAVIOR_MAP[
        CHOOSE i \in 1..Len(BACKEND_TO_FRONTEND_BEHAVIOR_MAP) :
            BACKEND_TO_FRONTEND_BEHAVIOR_MAP[i][1] = code][2]

\* The non-empty pieces of the code between '-' and '_'.
TokensOf(code) == SelectSeq(SplitTokens(code, ""), LAMBDA w : w # "")
\* The tokens title-cased and joined by single spaces.
TitleCased(code) ==
    Join([i \in 1..Len(TokensOf(code)) |-> Capitalize(TokensOf(code)[i])], " ")
\* 'Self Directed' and 'Self Directed ...' written with a hyphen.
Hyphenated(label) ==
    IF label = "Self Directed" THEN "Self-directed"
    ELSE IF StartsWith(label, "Self Directed ") THEN "Self-directed" \o Slice(label, 13)
    ELSE label
\* A code with at least one token and without surrounding blanks.
PlainCode(code) == Len(TokensOf(code)) > 0 /\ Trim(code) = code

\* C13: getFrontendBehaviorType returns the table's label for a code found
\* verbatim or upper-cased in the table, and for any other code its tokens
\* (split on '-' and '_') title-cased and joined by single spaces, with
\* 'Self Directed' at the start rewritten to 'Self-directed'.
C13_TableOrTitleCase ==
    (output # Pending /\ IsString(input) /\ PlainCode(input.s)) =>
        output =
            Str(IF InTable(input.s) THEN TableLabel(input.s)
                ELSE IF InTable(ToUpperCase(input.s)) THEN TableLabel(ToUpperCase(input.s))
                ELSE Hyphenated(TitleCased(input.s)))

(***************************************************************************)
(* convertS3UrlToHttp applied to one URL, and again to its result          *)
(***************************************************************************)
UrlSchemes == {"s3://", "http://", "https://", "ftp://", "S3://", "s3:/", ""}
UrlRests ==
    {"bucket", "bucket/", "bucket/a/b/c.mp4", "my-bucket/key", "", "/key", "a//b",
     "already.example/x"}
UrlInputs == {Str(scheme \o rest) : scheme \in UrlSchemes, rest \in UrlRests}

InitUrl ==
    /\ Quiet
    /\ input \in UrlInputs
    /\ output = Pending

\* One call of convertS3UrlToHttp(input).
ConvertS3UrlToHttp ==
    /\ output = Pending
    /\ IsString(input)
    /\ output' = Str(convertS3UrlToHttp(input.s))
    /\ UNCHANGED <<env, now, query, pc, response, rawEvents, eventsResult, summaryResult,
                   record, outcome, input, hookVars, uiVars>>

\* The caller hands the converted URL to convertS3UrlToHttp once more.
ConvertAgain ==
    /\ output # Pending
    /\ IsString(output)
    /\ input # output
    /\ input' = output
    /\ output' = Pending
    /\ UNCHANGED <<env, now, query, pc, response, rawEvents, eventsResult, summaryResult,
                   record, outcome, hookVars, uiVars>>

NextUrl == ConvertS3UrlToHttp \/ ConvertAgain

SpecUrl == InitUrl /\ [][NextUrl]_vars

(***************************************************************************)
(* Properties of convertS3UrlToHttp (under SpecUrl)                        *)
(***************************************************************************)
Converted == output # Pending /\ IsString(input) /\ IsString(output)

\* rest is bucket, '/', key, and bucket holds no '/'.
SplitsAtFirstSlash(rest, bucket, key) ==
    /\ rest = bucket \o "/" \o key
    /\ ~Includes(bucket, "/")

\* C14: convertS3UrlToHttp returns its input unchanged when it starts with
\* http:// or https://, is empty or uses any other scheme; for 's3://' + rest
\* it returns 'https://{bucket}.s3.amazonaws.com/{key}' with rest split at its
\* first '/', and 'https://{rest}.s3.amazonaws.com' when rest has no '/'.
C14_S3UrlRewritten ==
    Converted =>
        IF StartsWith(input.s, "s3://")
        THEN LET rest == Slice(input.s, 5)
             IN  IF ~Includes(rest, "/")
                 THEN output.s = "https://" \o rest \o ".s3.amazonaws.com"
                 ELSE \E i \in 1..Len(rest) :
                        /\ SplitsAtFirstSlash(rest, SubSeq(rest, 1, i - 1),
                                              SubSeq(rest, i + 1, Len(rest)))
                        /\ output.s = "https://" \o SubSeq(rest, 1, i - 1)
                                      \o ".s3.amazonaws.com/"
                                      \o SubSeq(rest, i + 1, Len(rest))
        ELSE output = input

\* An s3 URL with a key of several segments has been rewritten.
C14_Witness ==
    /\ input = Str("s3://bucket/a/b/c.mp4")
    /\ output = Str("https://bucket.s3.amazonaws.com/a/b/c.mp4")

\* C15: convertS3UrlToHttp is idempotent: converting a converted URL returns
\* it unchanged.
C15_ConvertIdempotent ==
    Converted => convertS3UrlToHttp(output.s) = output.s

\* The rewritten form of an s3 URL has been converted a second time and came
\* back unchanged.
C15_Witness ==
    /\ input = Str("https://bucket.s3.amazonaws.com/a/b/c.mp4")
    /\ output = input

(***************************************************************************)
(* Query hooks (hooks.ts): useBehaviorEvents and useBehaviorSummary        *)
(***************************************************************************)
QUERY_VERSION == "v1"

\* A key builder that leaves the behaviour filter out of the key.
queryKeysBehaviorEvents_NoBehaviorType(startDate, endDate, behaviorType, animalId) ==
    <<Str("behaviorEvents"), Str(QUERY_VERSION), startDate, endDate, Undef, animalId>>

queryKeysBehaviorEvents(startDate, endDate, behaviorType, animalId) ==
    <<Str("behaviorEvents"), Str(QUERY_VERSION), startDate, endDate, behaviorType, animalId>>

queryKeysBehaviorSummary(preset, startDate, endDate, animalId) ==
    <<Str("behaviorSummary"), Str(QUERY_VERSION), preset, startDate, endDate, animalId>>

\* useQuery files a query under the JSON text of its key, in which an
\* undefined array element is written as null.
hashKey(queryKey) ==
    [i \in 1..Len(queryKey) |-> IF queryKey[i] = Undef THEN Null ELSE queryKey[i]]

MaxRenders == 2

HookDates == {"2025-10-20", "2025-10-21"}
HookAnimals == {Undef, Str("GAE-02")}
EventsHookArgs ==
    {args \in
        {[hook |-> "useBehaviorEvents", preset |-> Undef, startDate |-> Str(d),
          endDate |-> Str("2025-10-21"), behaviorType |-> b, enabled |-> en,
          animalId |-> a] :
            d \in HookDates, b \in {Undef, Str("Pacing")}, a \in HookAnimals,
            en \in BOOLEAN} :
        args.enabled \/ (args.behaviorType = Undef /\ args.animalId = Undef)}
SummaryHookArgs ==
    {[hook |-> "useBehaviorSummary", preset |-> Str(p), startDate |-> d,
      endDate |-> Str("2025-10-21"), behaviorType |-> Undef, enabled |-> TRUE,
      animalId |-> a] :
        p \in {"today", "custom"}, d \in {Undef, Str("2025-10-20")}, a \in {Undef}}

\* The queryKey option the hook hands to useQuery.
QueryKeyOf(args) ==
    IF args.hook = "useBehaviorEvents"
    THEN queryKeysBehaviorEvents(args.startDate, args.endDate, args.behaviorType,
                                 args.animalId)
    ELSE queryKeysBehaviorSummary(args.preset, args.startDate, args.endDate,
                                  args.animalId)

ANIMAL_ID_MAP == << <<"giant-anteater", "GAE-01">> >>
getBackendAnimalId(frontendAnimalId) ==
    OrChain(<<Lookup(ANIMAL_ID_MAP, frontendAnimalId.s), frontendAnimalId>>)

\* The timeline the backend holds for an animal from a start date on: two
\* records whose ids name the animal and the date.
getAnteaterTimelineApi(animalId, startDate, endDate) ==
    Arr(<<Obj(Merge(<<"id" :> Str(animalId.s \o "/" \o startDate.s \o "/1"),
                      "behaviour" :> Str("PACING"),
                      "start_datetime" :> Str(startDate.s \o " 02:52:05"),
                      "duration_seconds" :> Num(30)>>)),
          Obj(Merge(<<"id" :> Str(animalId.s \o "/" \o startDate.s \o "/2"),
                      "behaviour" :> Str("FOO-BAR"),
                      "start_datetime" :> Str(startDate.s \o " 03:10:00"),
                      "duration_seconds" :> Num(45)>>))>>)

\* fetchBehaviorEvents(startDate, endDate, behaviorType, frontendAnimalId)
\* from the API call to the settled promise.
FetchEvents(startDate, endDate, behaviorType, frontendAnimalId, clock, offsetMin) ==
    fetchBehaviorEvents(
        getAnteaterTimelineApi(
            getBackendAnimalId(OrChain(<<frontendAnimalId, Str("giant-anteater")>>)),
            startDate, endDate),
        behaviorType, clock, "0.25", offsetMin)

SummaryFromEvents(events, browser) ==
    IF IsThrow(events) THEN events
    ELSE [k |-> "ok",
          summary |-> generateSummaryFromEvents(events.events, browser.offsetMin,
                                                browser.midnightIs24)]

\* fetchBehaviorSummary(preset, startDate, endDate, frontendAnimalId) from
\* the call to the settled promise.
FetchSummary(preset, startDate, endDate, frontendAnimalId, clock, browser) ==
    IF ~Truthy(startDate) \/ ~Truthy(endDate)
    THEN Throw("Error: startDate and endDate are required for behavior summary")
    ELSE SummaryFromEvents(FetchEvents(startDate, endDate, Undef, frontendAnimalId,
                                       clock, browser.offsetMin),
                           browser)

\* The queryFn closure of a hook rendered with args, run to its end.
QueryFn(args, clock, browser) ==
    IF args.hook = "useBehaviorEvents"
    THEN FetchEvents(args.startDate, args.endDate, args.behaviorType, args.animalId,
                     clock, browser.offsetMin)
    ELSE FetchSummary(args.preset, args.startDate, args.endDate, args.animalId,
                      clock, browser)

\* useQuery in a render with args: the observer moves to the query of the
\* key, and an enabled query that is not being fetched starts its queryFn.
UseQuery(args, queryHash) ==
    /\ hookArgs' = args
    /\ renders' = renders + 1
    /\ inFlight' =
          IF args.enabled /\ ~\E f \in inFlight : f.queryHash = queryHash
          THEN inFlight \cup {[queryHash |-> queryHash, args |-> args]}
          ELSE inFlight
    /\ UNCHANGED <<queryCache, coreVars, uiVars>>

useBehaviorEvents ==
    /\ renders < MaxRenders
    /\ \E args \in EventsHookArgs : UseQuery(args, hashKey(QueryKeyOf(args)))

useBehaviorSummary ==
    /\ renders < MaxRenders
    /\ \E args \in SummaryHookArgs : UseQuery(args, hashKey(QueryKeyOf(args)))

\* A started queryFn settles, in any order with respect to the others, and
\* its result is stored in the query it was started for.
QueryFnSettles ==
    \E f \in inFlight :
        /\ inFlight' = inFlight \ {f}
        /\ queryCache' =
              {e \in queryCache : e.queryHash # f.queryHash}
              \cup {[queryHash |-> f.queryHash, data |-> QueryFn(f.args, now, env)]}
        /\ UNCHANGED <<hookArgs, renders, coreVars, uiVars>>

InitHooks == Quiet /\ input = Null /\ output = Pending

NextHooks == useBehaviorEvents \/ useBehaviorSummary \/ QueryFnSettles

SpecHooks == InitHooks /\ [][NextHooks]_vars

(***************************************************************************)
(* Properties of the query hooks (under SpecHooks)                         *)
(***************************************************************************)
HookArgs == EventsHookArgs \cup SummaryHookArgs
QueryHashOf(args) == hashKey(QueryKeyOf(args))

\* The cache entries useQuery presents to a render with args.
PresentedTo(args) == {e \in queryCache : e.queryHash = QueryHashOf(args)}

\* C16: the result of a fetch is stored only in the query whose key is built
\* from the fetch's own parameters, so whatever the order in which fetches
\* settle, a render never gets the result of a fetch issued for other
\* parameters: every cache entry holds what the query function returns for
\* any parameters that address the entry.
C16_ResultFiledUnderOwnParameters ==
    /\ \A e \in queryCache : \A args \in HookArgs :
          QueryHashOf(args) = e.queryHash => e.data = QueryFn(args, now, env)
    /\ \A e, f \in queryCache : e.queryHash = f.queryHash => e = f
    /\ \A f \in inFlight : f.queryHash = QueryHashOf(f.args)

\* The behaviour filter was switched on between two renders; the fetch of
\* the superseded render has settled as well as the current one, and the
\* current render is presented the filtered list.
C16_Witness ==
    /\ renders = 2
    /\ hookArgs \in EventsHookArgs
    /\ hookArgs.behaviorType = Str("Pacing")
    /\ \E e \in queryCache :
          /\ e.queryHash =
                hashKey(queryKeysBehaviorEvents(hookArgs.startDate, hookArgs.endDate,
                                                Undef, hookArgs.animalId))
          /\ Len(e.data.events) = 2
    /\ \E e \in PresentedTo(hookArgs) : Len(e.data.events) = 1

(***************************************************************************)
(* formatTimestamp applied to one date text                                *)
(***************************************************************************)
Weekdays == {"Mon", "Tue", "Wed", "Thu", "Fri", "Sat", "Sun"}
SpaceDateTimes == {"2025-10-20 02:52:05", "2025-10-21 23:59:59"}
WeekdaySuffixed == {t \o " (" \o w \o ")" : t \in SpaceDateTimes, w \in Weekdays}
Rfc2822Texts == {"Mon, 20 Oct 2025 02:52:57 GMT", "Wed, 5 Nov 2025 10:00:00 GMT"}
IsoTexts == {"2025-10-20T02:52:05Z", "2025-10-20T02:52:05.000Z"}
DateOnlyTexts == {"2025-10-20", "2025-11-05"}
OtherTexts == {"", "2025-10-20 02:52:05 (??)", "yesterday"}
TimestampInputs ==
    {Str(s) : s \in SpaceDateTimes \cup WeekdaySuffixed \cup Rfc2822Texts \cup IsoTexts
                    \cup DateOnlyTexts \cup OtherTexts}
    \cup {Undef}

InitTimestamp ==
    /\ env \in Envs
    /\ now = Num(1000)
    /\ Idle
    /\ record = Null
    /\ outcome = Pending
    /\ input \in TimestampInputs
    /\ output = Pending

\* One call of formatTimestamp(input).
FormatTimestamp ==
    /\ output = Pending
    /\ output' = formatTimestamp(input, now, env.offsetMin)
    /\ UNCHANGED <<env, now, query, pc, response, rawEvents, eventsResult, summaryResult,
                   record, outcome, input, hookVars, uiVars>>

NextTimestamp == FormatTimestamp

SpecTimestamp == InitTimestamp /\ [][NextTimestamp]_vars

(***************************************************************************)
(* Properties of formatTimestamp (under SpecTimestamp)                     *)
(***************************************************************************)
Formatted == output # Pending

\* C21: for every input 'YYYY-MM-DD HH:mm:ss (Www)' with a weekday
\* abbreviation Www, formatTimestamp strips the parenthesized weekday before
\* parsing: its output is its output for the same text without the suffix.
C21_WeekdaySuffixStripped ==
    (Formatted /\ IsString(input) /\ input.s \in WeekdaySuffixed) =>
        output = formatTimestamp(Str(Sub(input.s, 0, 19)), now, env.offsetMin)

\* The instant a supported date text stands for: the local wall clock for
\* the space-separated forms, local midnight for a bare date, UTC for the
\* others.
InstantOfText(s) ==
    IF s \in SpaceDateTimes \cup WeekdaySuffixed
    THEN NumSub(WallClock(Sub(s, 0, 10) \o "T" \o Sub(s, 11, 19), 0),
                Num(env.offsetMin * 60000))
    ELSE IF s \in DateOnlyTexts
    THEN NumSub(WallClock(s \o "T00:00:00", 0), Num(env.offsetMin * 60000))
    ELSE DateParse(s, env.offsetMin)

SupportedTexts ==
    SpaceDateTimes \cup WeekdaySuffixed \cup Rfc2822Texts \cup IsoTexts \cup DateOnlyTexts

\* C22: for every supported encoding (ISO-8601, 'YYYY-MM-DD HH:mm:ss', the
\* weekday-suffixed form, RFC-2822 with GMT, bare date) formatTimestamp
\* returns the instant as a UTC ISO-8601 string; an RFC-2822 text is
\* converted, not returned as it came.
C22_SingleRepresentation ==
    (Formatted /\ IsString(input) /\ input.s \in SupportedTexts) =>
        /\ IsString(output)
        /\ IsIsoDateTime(output.s)
        /\ CharAt(output.s, Len(output.s)) = "Z"
        /\ DateParse(output.s, env.offsetMin) = InstantOfText(input.s)

(***************************************************************************)
(* getBehaviorColor called again and again in one session                  *)
(***************************************************************************)
MaxCalls == 4

\* Labels with a static colour, labels without one (three of them with the
\* same trimmed lower-case text, hence the same hash), and a key every
\* object inherits.
ColorLabels ==
    {"Pacing", "Foraging", "foraging", " Foraging ", "pacing", "constructor"}

InitColors ==
    /\ env = [offsetMin |-> 60, midnightIs24 |-> FALSE]
    /\ now = Num(1000)
    /\ NoFetch
    /\ record = Null /\ outcome = Pending /\ input = Null /\ output = Pending
    /\ colorFormat \in {"hsl", "hex"}
    /\ NoColors
    /\ NoRange

\* getBehaviorColor(behavior) finds no colour for the label: it makes one,
\* stores it in both tables and returns it.
AssignColor(behavior, color) ==
    /\ assignedColors' = Append(assignedColors, <<behavior, color>>)
    /\ usedColors' = usedColors \cup {ToLowerCase(color)}
    /\ output' = Str(color)

\* One call of getBehaviorColor(behavior).
GetBehaviorColor ==
    /\ Len(colorLog) < MaxCalls
    /\ \E behavior \in ColorLabels :
          /\ input' = Str(behavior)
          /\ IF Truthy(Lookup(behaviorColors, behavior))
             THEN /\ output' = Lookup(behaviorColors, behavior)
                  /\ UNCHANGED <<assignedColors, usedColors>>
             ELSE IF Truthy(Lookup(assignedColors, behavior))
             THEN /\ output' = Lookup(assignedColors, behavior)
                  /\ UNCHANGED <<assignedColors, usedColors>>
             ELSE AssignColor(behavior, NewColor(colorFormat, usedColors, behavior))
          /\ colorLog' = Append(colorLog, [behavior |-> behavior, color |-> output'])
    /\ UNCHANGED <<env, now, query, pc, response, rawEvents, eventsResult, summaryResult,
                   record, outcome, hookVars, colorFormat, rangeVars>>

NextColors == GetBehaviorColor

SpecColors == InitColors /\ [][NextColors]_vars

\* The labels of the calls made so far that have no static colour.
DynamicCalls == {i \in 1..Len(colorLog) : ~Truthy(Lookup(behaviorColors, colorLog[i].behavior))}

\* Every call for a label returned the colour the first call for it returned.
SameColorEveryCall ==
    \A i, j \in 1..Len(colorLog) :
        colorLog[i].behavior = colorLog[j].behavior => colorLog[i].color = colorLog[j].color

\* The table holds one entry per dynamically coloured label: the colour the
\* call returned.
TableHoldsReturned ==
    /\ \A i \in DynamicCalls :
          Lookup(assignedColors, colorLog[i].behavior) = colorLog[i].color
    /\ \A k, l \in 1..Len(assignedColors) :
          assignedColors[k][1] = assignedColors[l][1] => k = l
    /\ \A k \in 1..Len(assignedColors) :
          \E i \in DynamicCalls : colorLog[i].behavior = assignedColors[k][1]

\* Two different labels of the table hold different colours, none of them a
\* static colour, while fewer than 360 colours are in use.
DistinctDynamicColors ==
    Cardinality(usedColors) < 360 =>
        /\ \A k, l \in 1..Len(assignedColors) :
              k # l => ToLowerCase(assignedColors[k][2]) # ToLowerCase(assignedColors[l][2])
        /\ \A k \in 1..Len(assignedColors) :
              ToLowerCase(assignedColors[k][2]) \notin StaticUsedColors

\* A step keeps every entry of the table where it is and as it is.
TableOnlyGrows ==
    /\ Len(assignedColors') >= Len(assignedColors)
    /\ SubSeq(assignedColors', 1, Len(assignedColors)) = assignedColors
    /\ usedColors \subseteq usedColors'

\* C25: across any sequence of getBehaviorColor calls the dynamic table is
\* append-only: a label that was given a colour gets the same colour from
\* every later call, no entry is removed or changed, and two different
\* dynamically coloured labels hold different colours while fewer than 360
\* colours are in use.
C25_ColorTableAppendOnly ==
    /\ [](SameColorEveryCall /\ TableHoldsReturned /\ DistinctDynamicColors)
    /\ [][TableOnlyGrows]_vars

\* A label was coloured after another label with the same hash had taken its
\* hue, so the loop stepped to another hue, and it was then asked for again.
C25_Witness ==
    \E i, j \in DynamicCalls :
        /\ i < j
        /\ colorLog[i].behavior = colorLog[j].behavior
        /\ colorLog[j].color = Lookup(assignedColors, colorLog[j].behavior)
        /\ colorLog[i].color.s # NewColor_NoStep(colorFormat, {}, colorLog[i].behavior)
        /\ colorFormat = "hex"

(***************************************************************************)
(* DateRangeProvider: the initial fetch and the user's selections          *)
(***************************************************************************)
\* d.toISOString().split('T')[0] of the Date that setDate(getDate() - n)
\* makes of `new Date()`: the same wall clock n days earlier.
DateDaysAgo(clock, n) ==
    LET c == CivilFromDays(OriginDays + (clock.n \div MsPerDay) - n)
    IN  Str(Pad(c.y, 4) \o "-" \o Pad(c.m, 2) \o "-" \o Pad(c.d, 2))

DateRangeOf(preset, startDate, endDate) ==
    [preset |-> preset, startDate |-> startDate, endDate |-> endDate]

getDefaultDateRange(clock) ==
    DateRangeOf("last_7_days", DateDaysAgo(clock, 7), DateDaysAgo(clock, 0))

calculateDatesFromPreset(preset, clock) ==
    [startDate |->
        CASE preset = "today" -> DateDaysAgo(clock, 0)
          [] preset = "last_7_days" -> DateDaysAgo(clock, 7)
          [] preset = "last_30_days" -> DateDaysAgo(clock, 30)
          [] OTHER -> DateDaysAgo(clock, 0),
     endDate |-> DateDaysAgo(clock, 0)]

\* JSON.stringify of a string or a number, and of a DateRange.
JsonOf(v) == IF IsString(v) THEN "\"" \o v.s \o "\"" ELSE NumberText(v)
JsonOfRange(range) ==
    "{\"preset\":\"" \o range.preset \o "\",\"startDate\":" \o JsonOf(range.startDate)
    \o ",\"endDate\":" \o JsonOf(range.endDate) \o "}"

\* fetchDateRange: parseToDate(v), the time value or NaN for null.
parseToDate(v, offsetMin) ==
    IF ~Truthy(v) \/ ~IsString(v) THEN NaN
    ELSE IF Includes(v.s, "T") THEN DateParse(v.s, offsetMin)
    ELSE DateParse(ReplaceFirstSpace(v.s), offsetMin)

\* The candidates of all events of the timeline: the parsed starts and ends.
TimelineCandidates(timeline, offsetMin) ==
    {t \in {parseToDate(Prop(timeline[i], key), offsetMin) :
                i \in 1..Len(timeline), key \in {"start_datetime", "end_datetime"}} :
        ~IsNaN(t)}

DerivedRange(candidates) ==
    [startDate |->
        Str(Sub(ToISOString(CHOOSE t \in candidates : \A u \in candidates : ~NumLt(u, t)), 0, 10)),
     endDate |->
        Str(Sub(ToISOString(CHOOSE t \in candidates : \A u \in candidates : ~NumLt(t, u)), 0, 10))]

defaultRange == [startDate |-> Str("2025-10-01"), endDate |-> Str("2025-10-30")]

\* fetchDateRange() for what getAnteaterTimelineApi answered or threw.
fetchDateRange(timelineResponse, offsetMin) ==
    IF IsThrow(timelineResponse) THEN defaultRange
    ELSE IF timelineResponse.k # "object" THEN defaultRange
    ELSE IF Truthy(Get(timelineResponse, "error")) THEN defaultRange
    ELSE IF IsArray(Get(timelineResponse, "timeline"))
            /\ TimelineCandidates(Get(timelineResponse, "timeline").items, offsetMin) # {}
    THEN DerivedRange(TimelineCandidates(Get(timelineResponse, "timeline").items, offsetMin))
    ELSE IF Truthy(Get(timelineResponse, "start_date")) /\ Truthy(Get(timelineResponse, "end_date"))
    THEN [startDate |-> Get(timelineResponse, "start_date"),
          endDate |-> Get(timelineResponse, "end_date")]
    ELSE defaultRange

\* What the timeline API may answer to the provider's request.
TimelineAnswers ==
    {Throw("NetworkError"), Null,
     Obj("error" :> Str("no data")),
     Obj("timeline" :> Arr(<<Obj(Merge(<<"start_datetime" :> Str("2025-10-19 23:30:00"),
                                          "end_datetime" :> Str("2025-10-21 00:10:00")>>))>>)),
     Obj(Merge(<<"timeline" :> Arr(<<>>), "start_date" :> Str("2025-10-05"),
                 "end_date" :> Str("2025-10-25")>>)),
     Obj("timeline" :> Arr(<<Obj("start_datetime" :> Str("yesterday"))>>))}

Presets == {"today", "last_7_days", "last_30_days"}
PickedDates == {Str("2025-10-10"), Str("2025-10-12"), Str("2025-10-14")}

InitDateRange ==
    /\ env \in {e \in Envs : ~e.midnightIs24}
    /\ now = Num(1000)
    /\ NoFetch
    /\ record = Null /\ outcome = Pending /\ input = Null /\ output = Pending
    /\ NoUi

\* The provider mounts: the state starts at the default range and the
\* effect calls fetchDateRange.
MountDateRangeProvider ==
    /\ initializing = "unmounted"
    /\ dateRange' = getDefaultDateRange(now)
    /\ initializing' = "fetching"
    /\ UNCHANGED <<sessionStorage, userRange, coreVars, hookVars, colorVars>>

\* setDateRange(newRange); sessionStorage.setItem(STORAGE_KEY, JSON.stringify(newRange))
StoreRange(newRange) ==
    /\ dateRange' = newRange
    /\ sessionStorage' = JsonOfRange(newRange)

\* The user picks a preset in the DateRangePicker.
SetPreset ==
    /\ initializing # "unmounted"
    /\ \E preset \in Presets :
          LET dates == calculateDatesFromPreset(preset, now)
          IN  /\ StoreRange(DateRangeOf(preset, dates.startDate, dates.endDate))
              /\ userRange' = DateRangeOf(preset, dates.startDate, dates.endDate)
    /\ UNCHANGED <<initializing, coreVars, hookVars, colorVars>>

\* The user picks two dates in the DateRangePicker.
SetCustomRange ==
    /\ initializing # "unmounted"
    /\ \E startDate \in PickedDates, endDate \in PickedDates :
          /\ StoreRange(DateRangeOf("custom", startDate, endDate))
          /\ userRange' = DateRangeOf("custom", startDate, endDate)
    /\ UNCHANGED <<initializing, coreVars, hookVars, colorVars>>

\* initializeDateRange resumes after `await fetchDateRange()`.
FetchDateRangeResolves ==
    /\ initializing = "fetching"
    /\ \E timelineResponse \in TimelineAnswers :
          LET apiDateRange == fetchDateRange(timelineResponse, env.offsetMin)
          IN  IF Truthy(apiDateRange.startDate) /\ Truthy(apiDateRange.endDate)
              THEN StoreRange(DateRangeOf("custom", apiDateRange.startDate, apiDateRange.endDate))
              ELSE UNCHANGED <<dateRange, sessionStorage>>
    /\ initializing' = "done"
    /\ UNCHANGED <<userRange, coreVars, hookVars, colorVars>>

NextDateRange ==
    MountDateRangeProvider \/ SetPreset \/ SetCustomRange \/ FetchDateRangeResolves

SpecDateRange == InitDateRange /\ [][NextDateRange]_vars

\* The fetch resolves in this step, after the user has selected a range that
\* is the current one.
ResolvesAfterSelection ==
    /\ initializing = "fetching" /\ initializing' = "done"
    /\ userRange # Null
    /\ dateRange = userRange /\ sessionStorage = JsonOfRange(userRange)

\* C26: when the user selects a date range while the provider's initial
\* fetchDateRange call is pending, the selection is still the current
\* dateRange and the stored value after the fetch resolves.
C26_SelectionSurvivesLateFetch ==
    [][ResolvesAfterSelection =>
          dateRange' = userRange /\ sessionStorage' = JsonOfRange(userRange)]_vars

(***************************************************************************)
(* The summary of no events                                                *)
(***************************************************************************)
\* Cell c of the heatmap of the default labels, with nothing counted.
ZeroCell(c) ==
    [behavior_type |-> Str(DefaultHeatmapBehaviors[((c - 1) \div 24) + 1]),
     hour |-> Num((c - 1) % 24),
     count |-> Num(0),
     duration_seconds |-> Num(0)]

\* C28: for an empty Event list the summary has total_behaviors 0,
\* total_monitored_seconds 0, no behaviours, most_frequent_behavior 'No Data',
\* and a heatmap of 96 zero cells: hours 0..23 of Pacing, Recumbent,
\* Self-directed and Non Recumbent.
C28_EmptySummary ==
    (SummaryDone /\ EmptyResult) =>
        /\ summaryResult.summary.total_behaviors = Num(0)
        /\ summaryResult.summary.total_monitored_seconds = Num(0)
        /\ summaryResult.summary.behaviors = <<>>
        /\ summaryResult.summary.most_frequent_behavior = Str("No Data")
        /\ summaryResult.summary.hourly_heatmap = [c \in 1..96 |-> ZeroCell(c)]

\* The summary of the empty list an error response was unwrapped to.
C28_Witness ==
    /\ SummaryDone /\ EmptyResult
    /\ Truthy(Prop(response, "error"))
    /\ Len(summaryResult.summary.hourly_heatmap) = 96
    /\ summaryResult.summary.hourly_heatmap[96] = ZeroCell(96)

(***************************************************************************)
(* generateReport: a display label sent back to the backend                *)
(***************************************************************************)
BEHAVIOR_TYPE_MAP ==
    << <<"Pacing", "PACING">>, <<"Recumbent", "RECUMBENT">>, <<"Scratching", "SCRATCHING">>,
       <<"Self-directed", "SELF_DIRECTED">> >>

\* BEHAVIOR_TYPE_MAP[behaviorType] || behaviorType.toUpperCase()
getBackendBehaviorType(behaviorType) ==
    OrChain(<<Lookup(BEHAVIOR_TYPE_MAP, behaviorType.s), Str(ToUpperCase(behaviorType.s))>>)

\* The requestData generateReport builds for a config with the given
\* behaviours and no specific_behavior.
RequestData(behaviors, animalId) ==
    [animal_ids |-> <<getBackendAnimalId(OrChain(<<animalId, Str("giant-anteater")>>))>>,
     behaviors |-> behaviors,
     behaviour |->
        IF Len(behaviors) > 0 /\ Truthy(behaviors[1])
        THEN getBackendBehaviorType(behaviors[1]) ELSE Str("RECUMBENT")]

InitReport ==
    /\ Quiet
    /\ input \in LabelInputs
    /\ output = Pending

\* generateReport up to its request: the user reports on the label the
\* dashboard shows, or on no behaviour in particular.
GenerateReport ==
    /\ query = Null
    /\ IsString(output)
    /\ \E behaviors \in {<<>>, <<output>>}, animalId \in {Undef, Str("giant-anteater")} :
          query' = RequestData(behaviors, animalId)
    /\ UNCHANGED <<env, now, pc, response, rawEvents, eventsResult, summaryResult, record,
                   outcome, input, output, hookVars, uiVars>>

\* A record the backend returns for the requested behaviour is labelled:
\* getFrontendBehaviorType(requestData.behaviour).
LabelReportedBehaviour ==
    /\ query # Null
    /\ outcome = Pending
    /\ outcome' = getFrontendBehaviorType(query.behaviour)
    /\ UNCHANGED <<env, now, query, pc, response, rawEvents, eventsResult, summaryResult,
                   record, input, output, hookVars, uiVars>>

NextReport == GetFrontendBehaviorType \/ GenerateReport \/ LabelReportedBehaviour

SpecReport == InitReport /\ [][NextReport]_vars

\* The label of a code of the static table was sent to the backend and the
\* code that came back has been labelled.
RoundTripDone ==
    /\ IsString(input) /\ input.s \in TableCodes
    /\ query # Null /\ query.behaviors = <<output>>
    /\ outcome # Pending

\* C29: a display label L that getFrontendBehaviorType makes of a code of the
\* static table survives the round trip: getBackendBehaviorType(L) handed to
\* getFrontendBehaviorType is L again.
C29_LabelRoundTrip == RoundTripDone => outcome = output

(***************************************************************************)
(* Records without a behaviour                                             *)
(***************************************************************************)
\* None of the five keys transformBehaviorEvent reads holds a truthy value.
NoTruthyBehaviour(rec) ==
    /\ ~Truthy(Prop(rec, "Behaviour")) /\ ~Truthy(Prop(rec, "behaviour"))
    /\ ~Truthy(Prop(rec, "behavior_type")) /\ ~Truthy(Prop(rec, "behaviour_type"))
    /\ ~Truthy(Prop(rec, "behavior"))

Defaulted == {i \in 1..Len(rawEvents) : NoTruthyBehaviour(rawEvents[i])}
LabelledRecumbent ==
    {i \in 1..Len(eventsResult.events) : eventsResult.events[i].behavior_type = Str("Recumbent")}

\* C30: a record none of whose keys Behaviour, behaviour, behavior_type,
\* behaviour_type, behavior is truthy is normalised with raw code 'RECUMBENT'
\* and label 'Recumbent', and the aggregator counts it under 'Recumbent'.
C30_MissingBehaviourIsRecumbent ==
    SummaryDone =>
        /\ Len(eventsResult.events) = Len(rawEvents)
        /\ \A i \in Defaulted :
              /\ eventsResult.events[i].raw_behavior_type = Str("RECUMBENT")
              /\ eventsResult.events[i].behavior_type = Str("Recumbent")
        /\ Defaulted # {} =>
              /\ Len(AggregatesOf(summaryResult.summary, "Recumbent")) = 1
              /\ AggregatesOf(summaryResult.summary, "Recumbent")[1].count
                    = Num(Cardinality(LabelledRecumbent))

\* A record with an empty `behaviour` and a record with a `Behavior` key only
\* were both counted under Recumbent.
C30_Witness ==
    /\ SummaryDone
    /\ Defaulted = {1, 2}
    /\ Prop(rawEvents[1], "behaviour") = Str("")
    /\ Prop(rawEvents[2], "Behavior") = Str("RECUMBENT_STOPPED")
    /\ AggregatesOf(summaryResult.summary, "Recumbent")[1].count = Num(2)
=============================================================================
